---- MODULE Spec2Model ----
(***************************************************************************)
(* Versioned entity store of wikibase-backend: the request handlers of     *)
(* src/models/entity_api/main.py and src/services/entity_api/redirects.py  *)
(* over the metadata index (src/models/infrastructure/vitess_client.py)    *)
(* and the blob store (src/models/infrastructure/s3_client.py).            *)
(*                                                                         *)
(* Every call into the index or the blob store is one atomic step of the   *)
(* request that makes it; requests run concurrently, one per task.         *)
(*                                                                         *)
(* The handlers name an entity by its internal key and the client methods  *)
(* by its external id; the model names the rows of an entity by its        *)
(* external id throughout (the mapping is written once and never changed). *)
(* Everything else is taken as written: return values, the conditions of   *)
(* the SQL statements, the exceptions raised.                              *)
(***************************************************************************)
EXTENDS Integers, FiniteSets, Sequences, TLC

VARIABLES entity_id_mapping, entity_head, entity_revisions, entity_redirects,
          bucket, tasks, started,
          bag, cutoff, calls, entity, outputs,
          rows, now, history

vars == <<entity_id_mapping, entity_head, entity_revisions, entity_redirects,
          bucket, tasks, started,
          bag, cutoff, calls, entity, outputs,
          rows, now, history>>

index == <<entity_id_mapping, entity_head, entity_revisions, entity_redirects>>

\* the HTTP service: the tables, the bucket, the requests being served
web == <<index, bucket, tasks, started>>

\* one EntityConverter: its HashDedupeBag (bag, cutoff), the already_seen
\* calls made on a bag used on its own, the entity it is given and the
\* Turtle documents it has written
rdf == <<bag, cutoff, calls, entity, outputs>>

\* the revision list with its created_at column, the database clock and the
\* last answer of get_history
revision_log == <<rows, now, history>>

\* what no request handler touches
aside == <<rdf, revision_log>>

(***************************************************************************)
(* Bounds                                                                  *)
(***************************************************************************)
NumTasks == 2
MaxRequests == 3
NumDocs == 3

Tasks == 1..NumTasks
Docs == 1..NumDocs
EntityIds == {"Q1", "Q2"}

\* Python's None where an int is expected
NoneValue == -1

(***************************************************************************)
(* Requests and revision records                                           *)
(***************************************************************************)
Flags(sp, lk, ar, dg, mp) ==
    [is_semi_protected |-> sp, is_locked |-> lk, is_archived |-> ar,
     is_dangling |-> dg, is_mass_edit_protected |-> mp]

NoFlags == Flags(FALSE, FALSE, FALSE, FALSE, FALSE)

AllFlags == [is_semi_protected : BOOLEAN, is_locked : BOOLEAN,
             is_archived : BOOLEAN, is_dangling : BOOLEAN,
             is_mass_edit_protected : BOOLEAN]

\* EntityCreateRequest: the document and the fields sent with it
EntityCreateRequest(doc, flags, me, nac) ==
    [doc |-> doc, flags |-> flags, is_mass_edit |-> me,
     is_not_autoconfirmed_user |-> nac]

NoRequest == EntityCreateRequest(0, NoFlags, FALSE, FALSE)

BoolBit(b) == IF b THEN 1 ELSE 0

\* json.dumps(request.data, sort_keys=True): request.data holds every field
\* the caller sent, the document and the flags alike
CanonicalJson(request) ==
    LET f == request.flags
    IN  ((((((request.doc * 2 + BoolBit(f.is_semi_protected)) * 2
              + BoolBit(f.is_locked)) * 2
             + BoolBit(f.is_archived)) * 2
            + BoolBit(f.is_dangling)) * 2
           + BoolBit(f.is_mass_edit_protected)) * 2
          + BoolBit(request.is_mass_edit)) * 2
         + BoolBit(request.is_not_autoconfirmed_user)

\* rapidhash(entity_json.encode()): a digest, one-to-one on the documents of
\* the model
ContentHash(request) == (CanonicalJson(request) * 31 + 17) % 65521

\* content_hash of a record written without one (.get gives None)
NoHash == NoneValue

\* revision_data of create_entity
CreateRevisionData(request, new_revision_id) ==
    [revision_id |-> new_revision_id,
     is_mass_edit |-> request.is_mass_edit,
     edit_type |-> "",
     flags |-> request.flags,
     is_deleted |-> FALSE,
     is_redirect |-> FALSE,
     redirects_to |-> "",
     entity |-> request,
     content_hash |-> ContentHash(request)]

\* a deletion record that keeps the content_hash of the revision read
DeleteRevisionDataKeepingHash(current, new_revision_id, edit_type) ==
    [revision_id |-> new_revision_id,
     is_mass_edit |-> FALSE,
     edit_type |-> edit_type,
     flags |-> current.flags,
     is_deleted |-> TRUE,
     is_redirect |-> FALSE,
     redirects_to |-> "",
     entity |-> current.entity,
     content_hash |-> current.content_hash]

\* revision_data of delete_entity: flags and entity copied from the revision
\* read, no content_hash
DeleteRevisionData(current, new_revision_id, edit_type) ==
    [revision_id |-> new_revision_id,
     is_mass_edit |-> FALSE,
     edit_type |-> edit_type,
     flags |-> current.flags,
     is_deleted |-> TRUE,
     is_redirect |-> FALSE,
     redirects_to |-> "",
     entity |-> current.entity,
     content_hash |-> NoHash]

\* redirect_revision_data of RedirectService.create_redirect: only the
\* schema version, redirects_to and an empty entity
RedirectRevisionData(to, revision_id) ==
    [revision_id |-> revision_id,
     is_mass_edit |-> FALSE,
     edit_type |-> "",
     flags |-> NoFlags,
     is_deleted |-> FALSE,
     is_redirect |-> FALSE,
     redirects_to |-> to,
     entity |-> NoRequest,
     content_hash |-> NoHash]

(***************************************************************************)
(* Blob store (S3Client)                                                   *)
(***************************************************************************)
Key(entity_id, revision_id) == <<entity_id, revision_id>>

\* a put_object that stores nothing
write_revision_dropped(b, entity_id, revision_id, data, publication_state) == b

\* put_object: creates or overwrites the object at the key
write_revision(b, entity_id, revision_id, data, publication_state) ==
    LET key == Key(entity_id, revision_id)
        obj == [data |-> data, publication_state |-> publication_state]
    IN  [k \in (DOMAIN b) \cup {key} |-> IF k = key THEN obj ELSE b[k]]

\* get_object raises for a missing key
CanRead(entity_id, revision_id) == Key(entity_id, revision_id) \in DOMAIN bucket

read_revision(entity_id, revision_id) == bucket[Key(entity_id, revision_id)].data

\* copy_object of the key onto itself with new metadata
mark_published(b, entity_id, revision_id) ==
    LET key == Key(entity_id, revision_id)
    IN  [b EXCEPT ![key].publication_state = "published"]

(***************************************************************************)
(* Metadata index (VitessClient)                                           *)
(***************************************************************************)
Registered(entity_id) == entity_id_mapping[entity_id] # 0

HasHead(entity_id) == entity_head[entity_id] # {}

HeadRow(entity_id) == CHOOSE row \in entity_head[entity_id] : TRUE

\* 0 when there is no head row
get_head(entity_id) ==
    IF Registered(entity_id) /\ HasHead(entity_id)
    THEN HeadRow(entity_id).head_revision_id
    ELSE 0

is_entity_deleted(entity_id) ==
    IF Registered(entity_id) /\ HasHead(entity_id)
    THEN HeadRow(entity_id).is_deleted
    ELSE FALSE

is_entity_locked(entity_id) ==
    IF Registered(entity_id) /\ HasHead(entity_id)
    THEN HeadRow(entity_id).flags.is_locked
    ELSE FALSE

is_entity_archived(entity_id) ==
    IF Registered(entity_id) /\ HasHead(entity_id)
    THEN HeadRow(entity_id).flags.is_archived
    ELSE FALSE

NewHeadRow(head_revision_id, flags, is_deleted, is_redirect) ==
    [head_revision_id |-> head_revision_id, flags |-> flags,
     is_deleted |-> is_deleted, is_redirect |-> is_redirect,
     redirects_to |-> ""]

\* UPDATE ... WHERE entity_id = %s AND head_revision_id = %s; redirects_to
\* is not among the columns set
CasMatches(entity_id, expected_head) ==
    /\ HasHead(entity_id)
    /\ HeadRow(entity_id).head_revision_id = expected_head

cas_update_head_with_status(h, entity_id, expected_head, new_head, flags, is_deleted) ==
    IF CasMatches(entity_id, expected_head)
    THEN [h EXCEPT ![entity_id] =
            {[HeadRow(entity_id) EXCEPT !.head_revision_id = new_head,
                                        !.flags = flags,
                                        !.is_deleted = is_deleted,
                                        !.is_redirect = FALSE]}]
    ELSE h

\* INSERT INTO entity_head; False on IntegrityError
CanInsertHead(entity_id) == ~HasHead(entity_id)

insert_head_with_status(h, entity_id, head_revision_id, flags, is_deleted) ==
    IF CanInsertHead(entity_id)
    THEN [h EXCEPT ![entity_id] =
            {NewHeadRow(head_revision_id, flags, is_deleted, FALSE)}]
    ELSE h

\* UPDATE entity_head SET is_deleted = TRUE, head_revision_id = %s
\* WHERE entity_id = %s
hard_delete_entity(h, entity_id, head_revision_id) ==
    IF HasHead(entity_id)
    THEN [h EXCEPT ![entity_id] =
            {[HeadRow(entity_id) EXCEPT !.is_deleted = TRUE,
                                        !.head_revision_id = head_revision_id]}]
    ELSE h

\* UPDATE entity_head SET redirects_to = %s WHERE entity_id = %s
set_redirect_target(h, entity_id, redirects_to_entity_id) ==
    IF HasHead(entity_id)
    THEN [h EXCEPT ![entity_id] =
            {[HeadRow(entity_id) EXCEPT !.redirects_to = redirects_to_entity_id]}]
    ELSE h

RevisionRow(entity_id, revision_id, is_mass_edit, edit_type) ==
    [entity_id |-> entity_id, revision_id |-> revision_id,
     is_mass_edit |-> is_mass_edit, edit_type |-> edit_type]

\* SELECT 1 FROM entity_revisions WHERE entity_id = %s AND revision_id = %s
RevisionExists(entity_id, revision_id) ==
    \E row \in entity_revisions :
        row.entity_id = entity_id /\ row.revision_id = revision_id

RevisionIds(entity_id) ==
    {row.revision_id : row \in {r \in entity_revisions : r.entity_id = entity_id}}

\* INSERT INTO entity_revisions
insert_revision_row(revisions, entity_id, revision_id, is_mass_edit, edit_type) ==
    revisions \cup {RevisionRow(entity_id, revision_id, is_mass_edit, edit_type)}

\* generate_ulid_flake(): a key later than every key handed out before
generate_ulid_flake ==
    1 + (CHOOSE m \in {entity_id_mapping[e] : e \in EntityIds} :
            \A e \in EntityIds : entity_id_mapping[e] <= m)

\* an INSERT that takes any entity_id, as if it were no key
CanRegisterTwice(entity_id) == entity_id \in EntityIds

\* INSERT INTO entity_id_mapping; entity_id is the primary key
CanRegister(entity_id) == entity_id_mapping[entity_id] = 0

\* internal_id BIGINT NOT NULL UNIQUE
InternalIdFree(internal_id) ==
    \A e \in EntityIds : entity_id_mapping[e] # internal_id

register_entity(mapping, entity_id, internal_id) ==
    [mapping EXCEPT ![entity_id] = internal_id]

\* INSERT INTO entity_redirects; (redirect_from_id, redirect_to_id) is unique
CanInsertRedirect(from, to) == <<from, to>> \notin entity_redirects

create_redirect_row(redirects, from, to) == redirects \cup {<<from, to>>}

(***************************************************************************)
(* Protection rules of create_entity, in the order of the code             *)
(***************************************************************************)
\* the same rules with is_locked tested before is_archived
CheckProtectionLockedFirst(current, request) ==
    IF current.flags.is_locked THEN "locked"
    ELSE IF current.flags.is_archived THEN "archived"
    ELSE IF current.flags.is_mass_edit_protected /\ request.is_mass_edit
         THEN "mass-edit"
    ELSE IF current.flags.is_semi_protected
            /\ request.is_not_autoconfirmed_user
         THEN "semi-protected"
    ELSE "admitted"

CheckProtection(current, request) ==
    IF current.flags.is_archived THEN "archived"
    ELSE IF current.flags.is_locked THEN "locked"
    ELSE IF current.flags.is_mass_edit_protected /\ request.is_mass_edit
         THEN "mass-edit"
    ELSE IF current.flags.is_semi_protected
            /\ request.is_not_autoconfirmed_user
         THEN "semi-protected"
    ELSE "admitted"

(***************************************************************************)
(* Requests in progress                                                    *)
(***************************************************************************)
NoData == RedirectRevisionData("", 0)

IdleTask ==
    [pc |-> "idle", op |-> "", entity_id |-> "", redirect_to |-> "",
     request |-> NoRequest, delete_type |-> "", head_revision_id |-> 0,
     current |-> NoData, status |-> 0, revision_id |-> 0, detail |-> ""]

\* a request is taken by the first task that is not serving one
Serving(t) == tasks[t].pc \notin {"idle", "done"}

Free(t) ==
    /\ ~Serving(t)
    /\ \A u \in Tasks : u < t => Serving(u)
    /\ started < MaxRequests

Begin(t, op, entity_id, pc) ==
    [IdleTask EXCEPT !.pc = pc, !.op = op, !.entity_id = entity_id]

Goto(t, pc) == tasks' = [tasks EXCEPT ![t].pc = pc]

\* the response (or the HTTPException, or 500 for any other exception)
Return(t, status, revision_id, detail) ==
    tasks' = [tasks EXCEPT ![t].pc = "done", ![t].status = status,
                           ![t].revision_id = revision_id,
                           ![t].detail = detail, ![t].current = NoData]

\* new_revision_id = head_revision_id + 1 if head_revision_id else 1
NewRevisionId(head_revision_id) ==
    IF head_revision_id # NoneValue /\ head_revision_id # 0
    THEN head_revision_id + 1
    ELSE 1

EditTypeOf(task) ==
    CASE task.op = "create_entity" -> ""
      [] task.op = "delete_entity" ->
            IF task.delete_type = "soft" THEN "soft-delete" ELSE "hard-delete"
      [] OTHER -> "redirect-create"

(***************************************************************************)
(* create_entity (POST /entity)                                            *)
(***************************************************************************)
CreateEntity(t, entity_id, request) ==
    /\ Free(t)
    /\ started' = started + 1
    /\ tasks' = [tasks EXCEPT ![t] =
                    [Begin(t, "create_entity", entity_id, "create_resolve")
                        EXCEPT !.request = request]]
    /\ UNCHANGED <<index, bucket>>
    /\ UNCHANGED aside

\* internal_id = resolve_id(entity_id)
CreateResolve(t) ==
    /\ tasks[t].pc = "create_resolve"
    /\ IF Registered(tasks[t].entity_id)
       THEN Goto(t, "create_deleted")
       ELSE Goto(t, "create_register")
    /\ UNCHANGED <<index, bucket, started>>
    /\ UNCHANGED aside

\* register_entity(entity_id, internal_id); a duplicate key raises
CreateRegister(t) ==
    /\ tasks[t].pc = "create_register"
    /\ IF /\ CanRegister(tasks[t].entity_id)
          /\ InternalIdFree(generate_ulid_flake)
       THEN /\ entity_id_mapping' =
                  register_entity(entity_id_mapping, tasks[t].entity_id,
                                  generate_ulid_flake)
            /\ Goto(t, "create_head")
       ELSE /\ Return(t, 500, 0, "IntegrityError")
            /\ UNCHANGED entity_id_mapping
    /\ UNCHANGED <<entity_head, entity_revisions, entity_redirects, bucket,
                   started>>
    /\ UNCHANGED aside

\* if is_entity_deleted(internal_id): 410
CreateDeletedGuard(t) ==
    /\ tasks[t].pc = "create_deleted"
    /\ IF is_entity_deleted(tasks[t].entity_id)
       THEN Return(t, 410, 0, "deleted")
       ELSE Goto(t, "create_head")
    /\ UNCHANGED <<index, bucket, started>>
    /\ UNCHANGED aside

\* head_revision_id = get_head(internal_id)
CreateGetHead(t) ==
    /\ tasks[t].pc = "create_head"
    /\ tasks' = [tasks EXCEPT ![t].pc = "create_idempotency",
                              ![t].head_revision_id = get_head(tasks[t].entity_id)]
    /\ UNCHANGED <<index, bucket, started>>
    /\ UNCHANGED aside

\* a comparison of the request's hash with the wrong field of the head blob
SameContentByRevisionId(entity_id, head_revision_id, request) ==
    /\ CanRead(entity_id, head_revision_id)
    /\ read_revision(entity_id, head_revision_id).revision_id
          = ContentHash(request)

\* an idempotency check that does not answer for a locked or archived head
SameContentUnlessProtected(entity_id, head_revision_id, request) ==
    /\ CanRead(entity_id, head_revision_id)
    /\ read_revision(entity_id, head_revision_id).content_hash
          = ContentHash(request)
    /\ ~read_revision(entity_id, head_revision_id).flags.is_archived
    /\ ~read_revision(entity_id, head_revision_id).flags.is_locked

\* the head blob has the content hash of the request
SameContent(entity_id, head_revision_id, request) ==
    /\ CanRead(entity_id, head_revision_id)
    /\ read_revision(entity_id, head_revision_id).content_hash
          = ContentHash(request)

\* idempotency: read the head blob, compare content_hash; a failed read is
\* swallowed
CreateIdempotency(t) ==
    LET task == tasks[t] IN
    /\ task.pc = "create_idempotency"
    /\ IF /\ task.head_revision_id # NoneValue
          /\ SameContent(task.entity_id, task.head_revision_id, task.request)
       THEN Return(t, 200, task.head_revision_id, "unchanged")
       ELSE Goto(t, "create_protection")
    /\ UNCHANGED <<index, bucket, started>>
    /\ UNCHANGED aside

\* a protection check that runs after the pending blob has been written
CreateProtectionAfterWrite(t) ==
    LET task == tasks[t]
        new_revision_id == NewRevisionId(task.head_revision_id)
        verdict ==
            IF /\ task.head_revision_id # NoneValue
               /\ CanRead(task.entity_id, task.head_revision_id)
            THEN CheckProtection(
                    read_revision(task.entity_id, task.head_revision_id),
                    task.request)
            ELSE "admitted"
    IN
    /\ task.pc = "create_protection"
    /\ IF verdict = "admitted"
       THEN /\ Goto(t, "create_write")
            /\ UNCHANGED bucket
       ELSE /\ Return(t, 403, 0, verdict)
            /\ bucket' = write_revision(bucket, task.entity_id,
                             new_revision_id,
                             CreateRevisionData(task.request, new_revision_id),
                             "pending")
    /\ UNCHANGED <<index, started>>
    /\ UNCHANGED aside

\* protection: read the head blob again and apply the rules; a failed read
\* is swallowed
CreateProtection(t) ==
    LET task == tasks[t]
        verdict ==
            IF /\ task.head_revision_id # NoneValue
               /\ CanRead(task.entity_id, task.head_revision_id)
            THEN CheckProtection(
                    read_revision(task.entity_id, task.head_revision_id),
                    task.request)
            ELSE "admitted"
    IN
    /\ task.pc = "create_protection"
    /\ IF verdict = "admitted"
       THEN Goto(t, "create_write")
       ELSE Return(t, 403, 0, verdict)
    /\ UNCHANGED <<index, bucket, started>>
    /\ UNCHANGED aside

\* s3.write_revision(entity_id, new_revision_id, revision_data, "pending")
CreateWrite(t) ==
    LET task == tasks[t]
        new_revision_id == NewRevisionId(task.head_revision_id)
    IN
    /\ task.pc = "create_write"
    /\ bucket' = write_revision(bucket, task.entity_id, new_revision_id,
                    CreateRevisionData(task.request, new_revision_id),
                    "pending")
    /\ Goto(t, "revision_select")
    /\ UNCHANGED <<index, started>>
    /\ UNCHANGED aside

\* insert_head_with_status if head_revision_id is None, else
\* cas_update_head_with_status; 409 when not success
CreateCommit(t) ==
    LET task == tasks[t]
        new_revision_id == NewRevisionId(task.head_revision_id)
        success ==
            IF task.head_revision_id = NoneValue
            THEN CanInsertHead(task.entity_id)
            ELSE CasMatches(task.entity_id, task.head_revision_id)
    IN
    /\ task.pc = "create_commit"
    /\ entity_head' =
          IF task.head_revision_id = NoneValue
          THEN insert_head_with_status(entity_head, task.entity_id,
                   new_revision_id, task.request.flags, FALSE)
          ELSE cas_update_head_with_status(entity_head, task.entity_id,
                   task.head_revision_id, new_revision_id,
                   task.request.flags, FALSE)
    /\ IF success
       THEN Goto(t, "publish")
       ELSE Return(t, 409, 0, "conflict")
    /\ UNCHANGED <<entity_id_mapping, entity_revisions, entity_redirects,
                   bucket, started>>
    /\ UNCHANGED aside

(***************************************************************************)
(* Steps shared by the writing handlers                                    *)
(***************************************************************************)
AfterInsertRevision(task) ==
    CASE task.op = "create_entity" -> "create_commit"
      [] task.op = "delete_entity" -> "delete_commit"
      [] OTHER -> "redirect_edge"

\* insert_revision, first statement: resolve the id (ValueError when it is
\* not registered), then SELECT 1: return when the row exists
InsertRevisionSelect(t) ==
    LET task == tasks[t]
        revision_id == NewRevisionId(task.head_revision_id)
    IN
    /\ task.pc = "revision_select"
    /\ IF ~Registered(task.entity_id)
       THEN Return(t, 500, 0, "ValueError")
       ELSE IF RevisionExists(task.entity_id, revision_id)
            THEN Goto(t, AfterInsertRevision(task))
            ELSE Goto(t, "revision_insert")
    /\ UNCHANGED <<index, bucket, started>>
    /\ UNCHANGED aside

\* insert_revision, second statement: INSERT; (entity_id, revision_id) is
\* the primary key, a duplicate raises
InsertRevisionInsert(t) ==
    LET task == tasks[t]
        revision_id == NewRevisionId(task.head_revision_id)
    IN
    /\ task.pc = "revision_insert"
    /\ IF RevisionExists(task.entity_id, revision_id)
       THEN /\ Return(t, 500, 0, "IntegrityError")
            /\ UNCHANGED entity_revisions
       ELSE /\ entity_revisions' =
                  insert_revision_row(entity_revisions, task.entity_id,
                      revision_id,
                      IF task.op = "create_entity"
                      THEN task.request.is_mass_edit ELSE FALSE,
                      EditTypeOf(task))
            /\ Goto(t, AfterInsertRevision(task))
    /\ UNCHANGED <<entity_id_mapping, entity_head, entity_redirects, bucket,
                   started>>
    /\ UNCHANGED aside

\* s3.mark_published(entity_id, new_revision_id, "published"), then the
\* response
Publish(t) ==
    LET task == tasks[t]
        revision_id == NewRevisionId(task.head_revision_id)
    IN
    /\ task.pc = "publish"
    /\ bucket' = mark_published(bucket, task.entity_id, revision_id)
    /\ Return(t, 200, revision_id, "")
    /\ UNCHANGED <<index, started>>
    /\ UNCHANGED aside

\* s3.read_revision raises in the idempotency check (get_object is refused
\* or times out): except Exception: pass
CreateIdempotencyReadFails(t) ==
    /\ tasks[t].pc = "create_idempotency"
    /\ tasks[t].head_revision_id # NoneValue
    /\ Goto(t, "create_protection")
    /\ UNCHANGED <<index, bucket, started>>
    /\ UNCHANGED aside

\* s3.read_revision raises in the protection check: the exception is not an
\* HTTPException, so except Exception: pass, and the handler goes on
CreateProtectionReadFails(t) ==
    /\ tasks[t].pc = "create_protection"
    /\ tasks[t].head_revision_id # NoneValue
    /\ Goto(t, "create_write")
    /\ UNCHANGED <<index, bucket, started>>
    /\ UNCHANGED aside

\* s3.write_revision raises (put_object is refused or times out): nothing
\* catches it, the request ends in 500
CreateWriteFails(t) ==
    /\ tasks[t].pc = "create_write"
    /\ Return(t, 500, 0, "io-error")
    /\ UNCHANGED <<index, bucket, started>>
    /\ UNCHANGED aside

\* s3.mark_published raises (copy_object is refused or times out): nothing
\* around the call catches it, the request ends in 500
PublishFails(t) ==
    /\ tasks[t].pc = "publish"
    /\ Return(t, 500, 0, "ClientError")
    /\ UNCHANGED <<index, bucket, started>>
    /\ UNCHANGED aside

\* the request is cancelled or its worker dies between two calls of a
\* handler: no statement of the handler runs any more, nothing is undone
Cancel(t) ==
    /\ Serving(t)
    /\ tasks' = [tasks EXCEPT ![t].pc = "done", ![t].status = 0,
                              ![t].detail = "cancelled",
                              ![t].current = NoData]
    /\ UNCHANGED <<index, bucket, started>>
    /\ UNCHANGED aside

\* the blob a create_entity with this request on entity_id would write next
\* is already in the bucket, left by an attempt that did not move the head
LeftBehind(entity_id, request) ==
    /\ CanRead(entity_id, NewRevisionId(get_head(entity_id)))
    /\ read_revision(entity_id, NewRevisionId(get_head(entity_id))).entity
          = request

\* the caller of a cancelled create_entity that got as far as its blob write
\* sends the same request again; detail is "retry" while it is served
Retry(t) ==
    /\ tasks[t].pc = "done"
    /\ tasks[t].op = "create_entity"
    /\ tasks[t].detail = "cancelled"
    /\ LeftBehind(tasks[t].entity_id, tasks[t].request)
    /\ started < MaxRequests
    /\ started' = started + 1
    /\ tasks' = [tasks EXCEPT ![t] =
                    [Begin(t, "create_entity", tasks[t].entity_id,
                           "create_resolve")
                        EXCEPT !.request = tasks[t].request,
                               !.detail = "retry"]]
    /\ UNCHANGED <<index, bucket>>
    /\ UNCHANGED aside

(***************************************************************************)
(* delete_entity (DELETE /entity/{id})                                     *)
(***************************************************************************)
DeleteEntity(t, entity_id, delete_type) ==
    /\ Free(t)
    /\ started' = started + 1
    /\ tasks' = [tasks EXCEPT ![t] =
                    [Begin(t, "delete_entity", entity_id, "delete_resolve")
                        EXCEPT !.delete_type = delete_type]]
    /\ UNCHANGED <<index, bucket>>
    /\ UNCHANGED aside

\* internal_id = resolve_id(entity_id); 404 when None
DeleteResolve(t) ==
    /\ tasks[t].pc = "delete_resolve"
    /\ IF Registered(tasks[t].entity_id)
       THEN Goto(t, "delete_head")
       ELSE Return(t, 404, 0, "not found")
    /\ UNCHANGED <<index, bucket, started>>
    /\ UNCHANGED aside

\* head_revision_id = get_head(internal_id); 404 when None
DeleteGetHead(t) ==
    LET head_revision_id == get_head(tasks[t].entity_id) IN
    /\ tasks[t].pc = "delete_head"
    /\ IF head_revision_id = NoneValue
       THEN Return(t, 404, 0, "no revisions")
       ELSE tasks' = [tasks EXCEPT ![t].pc = "delete_read",
                                   ![t].head_revision_id = head_revision_id]
    /\ UNCHANGED <<index, bucket, started>>
    /\ UNCHANGED aside

\* current_revision = s3.read_revision(entity_id, head_revision_id)
DeleteRead(t) ==
    LET task == tasks[t] IN
    /\ task.pc = "delete_read"
    /\ IF CanRead(task.entity_id, task.head_revision_id)
       THEN tasks' = [tasks EXCEPT ![t].pc = "delete_write",
                         ![t].current =
                            read_revision(task.entity_id, task.head_revision_id)]
       ELSE Return(t, 500, 0, "NoSuchKey")
    /\ UNCHANGED <<index, bucket, started>>
    /\ UNCHANGED aside

\* s3.write_revision(entity_id, head_revision_id + 1, revision_data, "pending")
DeleteWrite(t) ==
    LET task == tasks[t]
        new_revision_id == task.head_revision_id + 1
    IN
    /\ task.pc = "delete_write"
    /\ bucket' = write_revision(bucket, task.entity_id, new_revision_id,
                    DeleteRevisionData(task.current, new_revision_id,
                                       EditTypeOf(task)),
                    "pending")
    /\ Goto(t, "revision_select")
    /\ UNCHANGED <<index, started>>
    /\ UNCHANGED aside

\* hard: hard_delete_entity; soft: cas_update_head_with_status with the
\* flags of the revision read, 409 when not success
DeleteCommit(t) ==
    LET task == tasks[t]
        new_revision_id == task.head_revision_id + 1
    IN
    /\ task.pc = "delete_commit"
    /\ IF task.delete_type = "hard"
       THEN /\ entity_head' = hard_delete_entity(entity_head, task.entity_id,
                                                 new_revision_id)
            /\ Goto(t, "publish")
       ELSE /\ entity_head' =
                  cas_update_head_with_status(entity_head, task.entity_id,
                      task.head_revision_id, new_revision_id,
                      task.current.flags, FALSE)
            /\ IF CasMatches(task.entity_id, task.head_revision_id)
               THEN Goto(t, "publish")
               ELSE Return(t, 409, 0, "conflict")
    /\ UNCHANGED <<entity_id_mapping, entity_revisions, entity_redirects,
                   bucket, started>>
    /\ UNCHANGED aside

(***************************************************************************)
(* RedirectService.create_redirect (POST /redirects)                       *)
(***************************************************************************)
\* the query of get_redirect_target names a table alias its FROM clause
\* does not have: it returns None for an id that is not registered and
\* raises for one that is
RedirectTargetQueryFails(entity_id) == Registered(entity_id)

\* from == to: 400
CreateRedirect(t, from, to) ==
    /\ Free(t)
    /\ started' = started + 1
    /\ tasks' = [tasks EXCEPT ![t] =
                    IF from = to
                    THEN [Begin(t, "create_redirect", from, "done")
                            EXCEPT !.redirect_to = to, !.status = 400,
                                   !.detail = "self"]
                    ELSE [Begin(t, "create_redirect", from, "redirect_target")
                            EXCEPT !.redirect_to = to]]
    /\ UNCHANGED <<index, bucket>>
    /\ UNCHANGED aside

\* existing_target = get_redirect_target(from); 409 when not None
RedirectGetTarget(t) ==
    /\ tasks[t].pc = "redirect_target"
    /\ IF RedirectTargetQueryFails(tasks[t].entity_id)
       THEN Return(t, 500, 0, "OperationalError")
       ELSE Goto(t, "redirect_deleted_from")
    /\ UNCHANGED <<index, bucket, started>>
    /\ UNCHANGED aside

\* is_entity_deleted(from): 423
RedirectDeletedFrom(t) ==
    /\ tasks[t].pc = "redirect_deleted_from"
    /\ IF is_entity_deleted(tasks[t].entity_id)
       THEN Return(t, 423, 0, "source deleted")
       ELSE Goto(t, "redirect_deleted_to")
    /\ UNCHANGED <<index, bucket, started>>
    /\ UNCHANGED aside

\* is_entity_deleted(to): 423
RedirectDeletedTo(t) ==
    /\ tasks[t].pc = "redirect_deleted_to"
    /\ IF is_entity_deleted(tasks[t].redirect_to)
       THEN Return(t, 423, 0, "target deleted")
       ELSE Goto(t, "redirect_locked_to")
    /\ UNCHANGED <<index, bucket, started>>
    /\ UNCHANGED aside

\* is_entity_locked(to) or ...: 423
RedirectLockedTo(t) ==
    /\ tasks[t].pc = "redirect_locked_to"
    /\ IF is_entity_locked(tasks[t].redirect_to)
       THEN Return(t, 423, 0, "target locked or archived")
       ELSE Goto(t, "redirect_archived_to")
    /\ UNCHANGED <<index, bucket, started>>
    /\ UNCHANGED aside

\* ... or is_entity_archived(to): 423
RedirectArchivedTo(t) ==
    /\ tasks[t].pc = "redirect_archived_to"
    /\ IF is_entity_archived(tasks[t].redirect_to)
       THEN Return(t, 423, 0, "target locked or archived")
       ELSE Goto(t, "redirect_head_to")
    /\ UNCHANGED <<index, bucket, started>>
    /\ UNCHANGED aside

\* get_head(to) == 0: 404
RedirectHeadTo(t) ==
    /\ tasks[t].pc = "redirect_head_to"
    /\ IF get_head(tasks[t].redirect_to) = 0
       THEN Return(t, 404, 0, "target has no revisions")
       ELSE Goto(t, "redirect_head_from")
    /\ UNCHANGED <<index, bucket, started>>
    /\ UNCHANGED aside

\* from_head_revision_id = get_head(from)
RedirectHeadFrom(t) ==
    /\ tasks[t].pc = "redirect_head_from"
    /\ tasks' = [tasks EXCEPT ![t].pc = "redirect_write",
                              ![t].head_revision_id = get_head(tasks[t].entity_id)]
    /\ UNCHANGED <<index, bucket, started>>
    /\ UNCHANGED aside

\* s3.write_revision(from, redirect_revision_id, redirect_revision_data,
\* "pending")
RedirectWrite(t) ==
    LET task == tasks[t]
        redirect_revision_id == NewRevisionId(task.head_revision_id)
    IN
    /\ task.pc = "redirect_write"
    /\ bucket' = write_revision(bucket, task.entity_id, redirect_revision_id,
                    RedirectRevisionData(task.redirect_to, redirect_revision_id),
                    "pending")
    /\ Goto(t, "revision_select")
    /\ UNCHANGED <<index, started>>
    /\ UNCHANGED aside

\* vitess.create_redirect(from, to): ValueError when an id is not
\* registered, IntegrityError on a duplicate (from, to)
RedirectEdge(t) ==
    LET task == tasks[t] IN
    /\ task.pc = "redirect_edge"
    /\ IF /\ Registered(task.entity_id)
          /\ Registered(task.redirect_to)
          /\ CanInsertRedirect(task.entity_id, task.redirect_to)
       THEN /\ entity_redirects' =
                  create_redirect_row(entity_redirects, task.entity_id,
                                      task.redirect_to)
            /\ Goto(t, "redirect_set_target")
       ELSE /\ Return(t, 500, 0, "create_redirect failed")
            /\ UNCHANGED entity_redirects
    /\ UNCHANGED <<entity_id_mapping, entity_head, entity_revisions, bucket,
                   started>>
    /\ UNCHANGED aside

\* vitess.set_redirect_target(from, to)
RedirectSetTarget(t) ==
    LET task == tasks[t] IN
    /\ task.pc = "redirect_set_target"
    /\ entity_head' = set_redirect_target(entity_head, task.entity_id,
                                          task.redirect_to)
    /\ Goto(t, "publish")
    /\ UNCHANGED <<entity_id_mapping, entity_revisions, entity_redirects,
                   bucket, started>>
    /\ UNCHANGED aside

(***************************************************************************)
(* RedirectService.revert_redirect (POST /entities/{id}/revert-redirect)   *)
(***************************************************************************)
RevertRedirect(t, entity_id, revert_to_revision_id) ==
    /\ Free(t)
    /\ started' = started + 1
    /\ tasks' = [tasks EXCEPT ![t] =
                    [Begin(t, "revert_redirect", entity_id, "revert_target")
                        EXCEPT !.revision_id = revert_to_revision_id]]
    /\ UNCHANGED <<index, bucket>>
    /\ UNCHANGED aside

\* current_redirect_target = get_redirect_target(entity_id); 404 when None.
\* The handler gets no further: the query raises for every registered id.
RevertGetTarget(t) ==
    /\ tasks[t].pc = "revert_target"
    /\ IF RedirectTargetQueryFails(tasks[t].entity_id)
       THEN Return(t, 500, 0, "OperationalError")
       ELSE Return(t, 404, 0, "not a redirect")
    /\ UNCHANGED <<index, bucket, started>>
    /\ UNCHANGED aside

(***************************************************************************)
(* Read handlers: the answer a read gives when it runs in the current      *)
(* state                                                                   *)
(***************************************************************************)
\* GET /entity/{id}: 404 unknown, 404 head None, 410 deleted, else the blob
get_entity_status(entity_id) ==
    IF ~Registered(entity_id) THEN 404
    ELSE IF get_head(entity_id) = NoneValue THEN 404
    ELSE IF is_entity_deleted(entity_id) THEN 410
    ELSE IF CanRead(entity_id, get_head(entity_id)) THEN 200
    ELSE 500

get_entity(entity_id) ==
    [revision_id |-> get_head(entity_id),
     data |-> read_revision(entity_id, get_head(entity_id)).entity]

\* GET /entity/{id}/history: 404 unknown, else the rows
get_entity_history_status(entity_id) ==
    IF ~Registered(entity_id) THEN 404 ELSE 200

\* GET /entity/{id}/revision/{rev}: the blob, whatever the index says
get_entity_revision_status(entity_id, revision_id) ==
    IF CanRead(entity_id, revision_id) THEN 200 ELSE 500

get_entity_revision(entity_id, revision_id) ==
    read_revision(entity_id, revision_id).entity

\* GET /raw/{id}/{rev}: 404 unknown, no history or revision not listed
get_raw_revision_status(entity_id, revision_id) ==
    IF ~Registered(entity_id) THEN 404
    ELSE IF RevisionIds(entity_id) = {} THEN 404
    ELSE IF revision_id \notin RevisionIds(entity_id) THEN 404
    ELSE IF CanRead(entity_id, revision_id) THEN 200
    ELSE 500

get_raw_revision(entity_id, revision_id) ==
    read_revision(entity_id, revision_id)

\* GET /wiki/Special:EntityData/{id}.ttl: 404 unknown, 404 head None, else
\* the head blob serialised
get_entity_data_turtle_status(entity_id) ==
    IF ~Registered(entity_id) THEN 404
    ELSE IF get_head(entity_id) = NoneValue THEN 404
    ELSE IF CanRead(entity_id, get_head(entity_id)) THEN 200
    ELSE 500

\* the answer of a delete_entity that runs alone from the current state
delete_entity_status(entity_id) ==
    IF ~Registered(entity_id) THEN 404
    ELSE IF get_head(entity_id) = NoneValue THEN 404
    ELSE IF CanRead(entity_id, get_head(entity_id)) THEN 200
    ELSE 500

\* the answer of the guard of create_entity; 0: the request goes on
create_entity_guard_status(entity_id) ==
    IF Registered(entity_id) /\ is_entity_deleted(entity_id) THEN 410 ELSE 0

(***************************************************************************)
(* Specification                                                           *)
(***************************************************************************)
\* the create requests callers send
Requests == {EntityCreateRequest(doc, NoFlags, FALSE, FALSE) : doc \in Docs}

DeleteTypes == {"soft", "hard"}

\* The clients attach to the stores they find (CREATE TABLE IF NOT EXISTS,
\* head_bucket before create_bucket): an entity is either unknown or was
\* written before, with one published revision.
StoredBefore(first) ==
    LET present == {e \in EntityIds : first[e] # NoRequest} IN
    /\ entity_id_mapping =
          [e \in EntityIds |->
              IF e \in present THEN (IF e = "Q1" THEN 1 ELSE 2) ELSE 0]
    /\ entity_head =
          [e \in EntityIds |->
              IF e \in present
              THEN {NewHeadRow(1, first[e].flags, FALSE, FALSE)}
              ELSE {}]
    /\ entity_revisions =
          {RevisionRow(e, 1, first[e].is_mass_edit, "") : e \in present}
    /\ bucket =
          [k \in {Key(e, 1) : e \in present} |->
              [data |-> CreateRevisionData(first[k[1]], 1),
               publication_state |-> "published"]]
    /\ entity_redirects = {}

(***************************************************************************)
(* HashDedupeBag (rdf_builder/hashing/deduplication_cache.py)              *)
(*                                                                         *)
(* Strings are sequences of characters, so that namespace + hash[:cutoff]  *)
(* is a real concatenation of a real prefix.                               *)
(***************************************************************************)
MaxCalls == 3

MaxCutoff == 2

\* def __init__(self, cutoff: int = 5)
DefaultCutoff == 5

HexChars == {"a", "b"}

\* the hashes and namespaces handed to a bag that is used on its own
Hashes == UNION {[1..n -> HexChars] : n \in 1..MaxCutoff}

Namespaces == {<< >>, <<"a">>}

\* self.bag = {}
EmptyBag == [k \in {} |-> << >>]

\* hash[: self.cutoff]
Truncate(hash, c) == SubSeq(hash, 1, IF Len(hash) < c THEN Len(hash) ELSE c)

\* key = namespace + hash[: self.cutoff]
BagKey(namespace, hash, c) == namespace \o Truncate(hash, c)

\* a bag that answers from the truncated key alone
already_seen_key_only(b, c, hash, namespace) ==
    LET key == BagKey(namespace, hash, c)
    IN  IF key \in DOMAIN b
        THEN [result |-> TRUE, bag |-> b]
        ELSE [result |-> FALSE,
              bag |-> [k \in DOMAIN b \cup {key} |->
                          IF k = key THEN hash ELSE b[k]]]

\* if key in self.bag and self.bag[key] == hash: return True
\* self.bag[key] = hash; return False
already_seen(b, c, hash, namespace) ==
    LET key == BagKey(namespace, hash, c)
    IN  IF key \in DOMAIN b /\ b[key] = hash
        THEN [result |-> TRUE, bag |-> b]
        ELSE [result |-> FALSE,
              bag |-> [k \in DOMAIN b \cup {key} |->
                          IF k = key THEN hash ELSE b[k]]]

\* HashDedupeBag(cutoff): cutoff <= 0 raises ValueError
NewBag(c) ==
    /\ c > 0
    /\ bag = EmptyBag
    /\ cutoff = c
    /\ calls = << >>

\* one call of already_seen on the bag, with what it returned
AlreadySeen(hash, namespace) ==
    LET seen == already_seen(bag, cutoff, hash, namespace)
    IN  /\ Len(calls) < MaxCalls
        /\ bag' = seen.bag
        /\ calls' = Append(calls, [hash |-> hash, namespace |-> namespace,
                                   result |-> seen.result])
        /\ UNCHANGED <<cutoff, entity, outputs, revision_log, web>>

\* self.bag.clear()
Clear ==
    /\ bag' = EmptyBag
    /\ calls' = << >>
    /\ UNCHANGED <<cutoff, entity, outputs, revision_log, web>>

(***************************************************************************)
(* EntityConverter.convert_to_turtle (rdf_builder/converter.py,            *)
(* writers/triple.py, writers/value_node.py)                               *)
(*                                                                         *)
(* The converter is built as EntityConverter(property_registry): no        *)
(* metadata directory, no redirects directory, no Vitess client, the       *)
(* deduplication on.  A value is its kind and, for a structured value, the *)
(* MD5 digest of its serialisation; the document is the sequence of the    *)
(* lines written.                                                          *)
(***************************************************************************)
MaxStatements == 2

MaxRuns == 2

\* digests (shortened to six hex characters): the first two agree on their
\* first five characters
ValueIds ==
    {<<"a", "b", "c", "d", "e", "0">>,
     <<"a", "b", "c", "d", "e", "1">>,
     <<"b", "b", "c", "d", "e", "0">>}

Values ==
    {[kind |-> "time", id |-> h] : h \in ValueIds}
        \cup {[kind |-> "string", id |-> << >>]}

\* a reference is its snaks; here one snak each
References == {<<v>> : v \in Values}

Statements ==
    [value : Values,
     qualifiers : {<< >>} \cup {<<v>> : v \in Values},
     references : {<< >>} \cup {<<r>> : r \in References}]

Entities ==
    {[id |-> "Q1", statements |-> s] :
        s \in UNION {[1..n -> Statements] : n \in 0..MaxStatements}}

NoEntity == [id |-> "Q1", statements |-> << >>]

\* upper_bound / lower_bound of a QuantityValue that is None
NoBound == "None"

\* QuantityValue: value, unit, upper_bound and lower_bound are strings that
\* float() accepts, the bounds may be None
Amounts == {"1", "2"}

Bounds == {NoBound, "2", "3"}

QuantityValues ==
    [kind : {"quantity"}, value : Amounts, unit : {"1"},
     upper_bound : Bounds, lower_bound : Bounds]

\* if value.upper_bound: a bound that is not None and not the empty string
Truthy(bound) == bound # NoBound /\ bound # ""

\* _serialize_value, kind == "quantity": ":".join(parts), kept as the
\* sequence of the parts between the colons
_serialize_value(value) ==
    <<"q", value.value, value.unit>>
        \o (IF Truthy(value.upper_bound) THEN <<value.upper_bound>> ELSE << >>)
        \o (IF Truthy(value.lower_bound) THEN <<value.lower_bound>> ELSE << >>)

\* hashlib.md5(...).hexdigest(): a digest, one-to-one on the serialisations
\* of the model and told apart within the first characters
md5(value_str) ==
    [i \in DOMAIN value_str |->
        IF value_str[i] = "q" THEN "f" ELSE value_str[i]]

\* hashlib.md5(value_str.encode("utf-8")).hexdigest(); a time value is kept
\* as its digest
generate_value_node_uri(value) ==
    IF value.kind = "quantity" THEN md5(_serialize_value(value)) ELSE value.id

\* value.kind in ("time", "quantity", "globe")
_needs_value_node(value) == value.kind \in {"time", "quantity", "globe"}

\* one output.write(...)
Line(text, id) == [text |-> text, id |-> id]

WdvNamespace == <<"w", "d", "v">>

\* if dedupe.already_seen(value_id, "wdv"): return; else the block
write_time_value_node(w, c, value_id) ==
    LET seen == already_seen(w.bag, c, value_id, WdvNamespace)
    IN  IF seen.result
        THEN [output |-> w.output, bag |-> seen.bag]
        ELSE [output |-> w.output \o
                  <<Line("a wikibase:TimeValue", value_id),
                    Line("wikibase:timeValue", value_id),
                    Line("wikibase:timePrecision", value_id),
                    Line("wikibase:timeTimezone", value_id),
                    Line("wikibase:timeCalendarModel", value_id)>>,
              bag |-> seen.bag]

\* if dedupe.already_seen(value_id, "wdv"): return; else the block, one
\* Line for each output.write
write_quantity_value_node(w, c, value_id, quantity_value) ==
    LET seen == already_seen(w.bag, c, value_id, WdvNamespace)
        upper == IF Truthy(quantity_value.upper_bound)
                 THEN <<Line(" ;", << >>),
                        Line("wikibase:quantityUpperBound",
                             <<quantity_value.upper_bound>>)>>
                 ELSE << >>
        lower == IF Truthy(quantity_value.lower_bound)
                 THEN (IF ~Truthy(quantity_value.upper_bound)
                       THEN <<Line(" ;", << >>)>> ELSE << >>)
                      \o <<Line("wikibase:quantityLowerBound",
                                <<quantity_value.lower_bound>>)>>
                 ELSE << >>
    IN  IF seen.result
        THEN [output |-> w.output, bag |-> seen.bag]
        ELSE [output |-> w.output \o
                  <<Line("a wikibase:QuantityValue", value_id),
                    Line("wikibase:quantityAmount", <<quantity_value.value>>),
                    Line("wikibase:quantityUnit", <<quantity_value.unit>>)>>
                  \o upper \o lower \o <<Line(" .", << >>)>>,
              bag |-> seen.bag]

\* the value of a statement, a qualifier or a reference snak: the triple
\* naming wdv:<id> and the value node of the kind, or the plain triple
write_value(w, c, value, value_node, plain) ==
    IF _needs_value_node(value)
    THEN LET named == [output |-> Append(w.output,
                                         Line(value_node,
                                              generate_value_node_uri(value))),
                       bag |-> w.bag]
         IN  IF value.kind = "quantity"
             THEN write_quantity_value_node(named, c,
                      generate_value_node_uri(value), value)
             ELSE write_time_value_node(named, c,
                      generate_value_node_uri(value))
    ELSE [output |-> Append(w.output, Line(plain, << >>)),
          bag |-> w.bag]

\* for qual in rdf_statement.qualifiers / for snak in ref.snaks
RECURSIVE write_values(_, _, _, _, _)
write_values(w, c, values, value_node, plain) ==
    IF values = << >>
    THEN w
    ELSE write_values(write_value(w, c, Head(values), value_node, plain), c,
                      Tail(values), value_node, plain)

\* for ref in rdf_statement.references
RECURSIVE write_references(_, _, _)
write_references(w, c, references) ==
    IF references = << >>
    THEN w
    ELSE write_references(
            write_values(
                [output |-> Append(w.output,
                                   Line("prov:wasDerivedFrom", << >>)),
                 bag |-> w.bag],
                c, Head(references), "prv:", "pr:"),
            c, Tail(references))

\* TripleWriters.write_statement
write_statement(w, c, stmt) ==
    LET link == [output |-> w.output \o
                     <<Line("p:", << >>),
                       Line("a wikibase:Statement, wikibase:BestRank", << >>),
                       Line("wdt:", << >>)>>,
                 bag |-> w.bag]
        value == write_value(link, c, stmt.value, "psv:", "ps:")
        rank == [output |-> Append(value.output,
                                   Line("wikibase:rank", << >>)),
                 bag |-> value.bag]
        qualifiers == write_values(rank, c, stmt.qualifiers, "pqv:", "pq:")
    IN  write_references(qualifiers, c, stmt.references)

\* for stmt in entity.statements
RECURSIVE _write_statements(_, _, _)
_write_statements(w, c, statements) ==
    IF statements = << >>
    THEN w
    ELSE _write_statements(write_statement(w, c, Head(statements)), c,
                           Tail(statements))

\* for pid in sorted(property_ids): every snak is of the one property
_write_property_metadata(w, ent) ==
    IF ent.statements = << >>
    THEN w
    ELSE [output |-> w.output \o
              <<Line("a wikibase:Property", << >>),
                Line("a owl:ObjectProperty", << >>),
                Line("a owl:Class", << >>)>>,
          bag |-> w.bag]

\* header, entity metadata, statements, redirects (none), referenced
\* entities (none), property metadata
convert_to_turtle(b, c, ent) ==
    LET head == [output |-> <<Line("@prefix", << >>),
                              Line("a wikibase:Item", << >>),
                              Line("a schema:Dataset", << >>)>>,
                 bag |-> b]
    IN  _write_property_metadata(
            _write_statements(head, c, ent.statements), ent)

\* EntityConverter(property_registry): self.dedupe = HashDedupeBag()
EntityConverter ==
    /\ bag' = EmptyBag
    /\ cutoff' = DefaultCutoff
    /\ UNCHANGED <<calls, entity, outputs, revision_log, web>>

\* converter.convert_to_string(entity)
ConvertToString ==
    LET w == convert_to_turtle(bag, cutoff, entity)
    IN  /\ Len(outputs) < MaxRuns
        /\ bag' = w.bag
        /\ outputs' = Append(outputs, w.output)
        /\ UNCHANGED <<cutoff, calls, entity, revision_log, web>>

(***************************************************************************)
(* The revision list with its timestamps (vitess_client.py)                *)
(*                                                                         *)
(* rows is the entity_revisions table in the order of its INSERTs, with    *)
(* the created_at column the schema fills in; now is CURRENT_TIMESTAMP in  *)
(* the unit of the column.                                                 *)
(***************************************************************************)
MaxRows == 3

MaxClock == 2

RowsOf(entity_id) ==
    {i \in DOMAIN rows : rows[i].entity_id = entity_id}

\* created_at TIMESTAMP NOT NULL DEFAULT CURRENT_TIMESTAMP
InsertRevisionStamped(entity_id) ==
    /\ Len(rows) < MaxRows
    /\ rows' = Append(rows,
                      [entity_id |-> entity_id,
                       revision_id |-> Cardinality(RowsOf(entity_id)) + 1,
                       created_at |-> now])
    /\ UNCHANGED <<now, history, rdf, web>>

\* time passes
Tick ==
    /\ now < MaxClock
    /\ now' = now + 1
    /\ UNCHANGED <<rows, history, rdf, web>>

\* SELECT revision_id, created_at FROM entity_revisions WHERE entity_id = %s
\* ORDER BY created_at DESC: every order of the rows that does not ascend in
\* created_at is an answer
get_history(entity_id) ==
    LET mine == RowsOf(entity_id)
        n == Cardinality(mine)
    IN  {[k \in 1..n |->
            [revision_id |-> rows[order[k]].revision_id,
             created_at |-> rows[order[k]].created_at]] :
         order \in {o \in [1..n -> mine] :
                      /\ \A j, k \in 1..n : j # k => o[j] # o[k]
                      /\ \A j, k \in 1..n :
                            j < k => rows[o[j]].created_at
                                        >= rows[o[k]].created_at}}

\* GET /entity/{entity_id}/history
GetEntityHistory(entity_id) ==
    /\ history' \in get_history(entity_id)
    /\ UNCHANGED <<rows, now, rdf, web>>

(***************************************************************************)
(* Start states of the parts that run on their own                         *)
(***************************************************************************)
\* the service with Q1 stored and no request running
WebIdle ==
    /\ StoredBefore([e \in EntityIds |->
                        IF e = "Q1"
                        THEN EntityCreateRequest(1, NoFlags, FALSE, FALSE)
                        ELSE NoRequest])
    /\ tasks = [t \in Tasks |-> IdleTask]
    /\ started = 0

\* no converter run, no timestamped row
AsideIdle ==
    /\ bag = EmptyBag
    /\ cutoff = DefaultCutoff
    /\ calls = << >>
    /\ entity = NoEntity
    /\ outputs = << >>
    /\ rows = << >>
    /\ now = 0
    /\ history = << >>

\* what the store may hold at start: Q1 is there, Q2 may be
InitialRequests == {EntityCreateRequest(1, NoFlags, FALSE, FALSE)}

Init ==
    /\ \E first \in [EntityIds -> InitialRequests \cup {NoRequest}] :
          /\ first["Q1"] # NoRequest
          /\ StoredBefore(first)
    /\ tasks = [t \in Tasks |-> IdleTask]
    /\ started = 0
    /\ AsideIdle

Step(t) ==
    \/ CreateResolve(t)
    \/ CreateRegister(t)
    \/ CreateDeletedGuard(t)
    \/ CreateGetHead(t)
    \/ CreateIdempotency(t)
    \/ CreateProtection(t)
    \/ CreateWrite(t)
    \/ CreateCommit(t)
    \/ InsertRevisionSelect(t)
    \/ InsertRevisionInsert(t)
    \/ Publish(t)
    \/ DeleteResolve(t)
    \/ DeleteGetHead(t)
    \/ DeleteRead(t)
    \/ DeleteWrite(t)
    \/ DeleteCommit(t)
    \/ RedirectGetTarget(t)
    \/ RedirectDeletedFrom(t)
    \/ RedirectDeletedTo(t)
    \/ RedirectLockedTo(t)
    \/ RedirectArchivedTo(t)
    \/ RedirectHeadTo(t)
    \/ RedirectHeadFrom(t)
    \/ RedirectWrite(t)
    \/ RedirectEdge(t)
    \/ RedirectSetTarget(t)
    \/ RevertGetTarget(t)

Next ==
    \E t \in Tasks :
        \/ \E e \in EntityIds, request \in Requests : CreateEntity(t, e, request)
        \/ \E e \in EntityIds, delete_type \in DeleteTypes :
              DeleteEntity(t, e, delete_type)
        \/ \E from \in EntityIds, to \in EntityIds : CreateRedirect(t, from, to)
        \/ \E e \in EntityIds : RevertRedirect(t, e, 1)
        \/ Step(t)

Spec == Init /\ [][Next]_vars

(***************************************************************************)
(* Writers only: concurrent create_entity requests and nothing else        *)
(***************************************************************************)
CreateStep(t) ==
    \/ CreateResolve(t)
    \/ CreateRegister(t)
    \/ CreateDeletedGuard(t)
    \/ CreateGetHead(t)
    \/ CreateIdempotency(t)
    \/ CreateProtection(t)
    \/ CreateWrite(t)
    \/ InsertRevisionSelect(t)
    \/ InsertRevisionInsert(t)
    \/ CreateCommit(t)
    \/ Publish(t)

NextWriters ==
    \E t \in Tasks :
        \/ \E e \in EntityIds, request \in Requests : CreateEntity(t, e, request)
        \/ CreateStep(t)

SpecWriters == Init /\ [][NextWriters]_vars

(***************************************************************************)
(* One create_entity at a time, on entities stored with any protection     *)
(* flags, by callers of either kind                                        *)
(***************************************************************************)
ProtectionFlags == {f \in AllFlags : ~f.is_dangling}

ProtectedRequests ==
    {EntityCreateRequest(1, f, FALSE, FALSE) : f \in ProtectionFlags}

\* the document stored at start or another one, sent as a mass edit or not,
\* by a caller who is autoconfirmed or not
CallerRequests ==
    {EntityCreateRequest(doc, NoFlags, me, nac) :
        doc \in {1, NumDocs}, me \in BOOLEAN, nac \in BOOLEAN}

InitProtected ==
    /\ \E first \in [EntityIds -> ProtectedRequests \cup {NoRequest}] :
          /\ first["Q1"] # NoRequest
          /\ first["Q2"] = NoRequest
          /\ StoredBefore(first)
    /\ tasks = [t \in Tasks |-> IdleTask]
    /\ started = 0
    /\ AsideIdle

NextOneAtATime ==
    \E t \in Tasks :
        \/ /\ \A u \in Tasks : ~Serving(u)
           /\ \E e \in EntityIds, request \in CallerRequests :
                 CreateEntity(t, e, request)
        \/ CreateStep(t)

SpecOneAtATime == InitProtected /\ [][NextOneAtATime]_vars

(***************************************************************************)
(* Every request, on an entity stored locked, archived or with no flag     *)
(***************************************************************************)
LockedRequests ==
    {r \in ProtectedRequests :
        /\ r.flags.is_locked \/ r.flags.is_archived
        /\ ~r.flags.is_semi_protected
        /\ ~r.flags.is_mass_edit_protected}

InitLocked ==
    /\ \E first \in [EntityIds ->
                        LockedRequests \cup InitialRequests \cup {NoRequest}] :
          /\ first["Q1"] # NoRequest
          /\ first["Q2"] = NoRequest
          /\ StoredBefore(first)
    /\ tasks = [t \in Tasks |-> IdleTask]
    /\ started = 0
    /\ AsideIdle

SpecLocked == InitLocked /\ [][Next]_vars

(***************************************************************************)
(* Concurrent create_entity requests that send the document stored at      *)
(* start or one other document                                             *)
(***************************************************************************)
TwoRequests ==
    {EntityCreateRequest(doc, NoFlags, FALSE, FALSE) : doc \in {1, NumDocs}}

NextRegister ==
    \E t \in Tasks :
        \/ \E e \in EntityIds, request \in TwoRequests :
              CreateEntity(t, e, request)
        \/ CreateStep(t)

SpecRegister == Init /\ [][NextRegister]_vars

(***************************************************************************)
(* create_entity and delete_entity requests, served one at a time          *)
(***************************************************************************)
DeleteStep(t) ==
    \/ DeleteResolve(t)
    \/ DeleteGetHead(t)
    \/ DeleteRead(t)
    \/ DeleteWrite(t)
    \/ DeleteCommit(t)

NextSequential ==
    \E t \in Tasks :
        \/ /\ \A u \in Tasks : ~Serving(u)
           /\ \/ \E e \in EntityIds, request \in Requests :
                    CreateEntity(t, e, request)
              \/ \E e \in EntityIds, delete_type \in DeleteTypes :
                    DeleteEntity(t, e, delete_type)
        \/ CreateStep(t)
        \/ DeleteStep(t)

SpecSequential == Init /\ [][NextSequential]_vars

(***************************************************************************)
(* Concurrent create_entity requests against a blob store whose            *)
(* copy_object may fail                                                    *)
(***************************************************************************)
NextFaulty ==
    \E t \in Tasks :
        \/ \E e \in EntityIds, request \in TwoRequests :
              CreateEntity(t, e, request)
        \/ CreateStep(t)
        \/ PublishFails(t)

SpecFaulty == Init /\ [][NextFaulty]_vars

(***************************************************************************)
(* Concurrent create_entity requests, on an entity stored locked, archived *)
(* or with no flag, against a blob store whose calls may fail              *)
(***************************************************************************)
NextBlobFaults ==
    \E t \in Tasks :
        \/ \E e \in EntityIds, request \in TwoRequests :
              CreateEntity(t, e, request)
        \/ CreateStep(t)
        \/ CreateIdempotencyReadFails(t)
        \/ CreateProtectionReadFails(t)
        \/ CreateWriteFails(t)
        \/ PublishFails(t)

SpecBlobFaults == InitLocked /\ [][NextBlobFaults]_vars

(***************************************************************************)
(* Concurrent create_entity and delete_entity requests, any of which may   *)
(* be cancelled at any step                                                *)
(***************************************************************************)
FreshRequests == {EntityCreateRequest(NumDocs, NoFlags, FALSE, FALSE)}

NextCancel ==
    \E t \in Tasks :
        \/ \E e \in EntityIds, request \in FreshRequests :
              CreateEntity(t, e, request)
        \/ \E e \in EntityIds, delete_type \in DeleteTypes :
              DeleteEntity(t, e, delete_type)
        \/ CreateStep(t)
        \/ DeleteStep(t)
        \/ Cancel(t)

SpecCancel == Init /\ [][NextCancel]_vars

(***************************************************************************)
(* create_entity and delete_entity requests served one at a time, any of   *)
(* which may be cancelled at any step                                      *)
(***************************************************************************)
NextCancelOneAtATime ==
    \E t \in Tasks :
        \/ /\ \A u \in Tasks : ~Serving(u)
           /\ \/ \E e \in EntityIds, request \in FreshRequests :
                    CreateEntity(t, e, request)
              \/ \E e \in EntityIds, delete_type \in DeleteTypes :
                    DeleteEntity(t, e, delete_type)
        \/ CreateStep(t)
        \/ DeleteStep(t)
        \/ Cancel(t)

SpecCancelOneAtATime == Init /\ [][NextCancelOneAtATime]_vars

(***************************************************************************)
(* create_entity requests served one at a time, any of which may be        *)
(* cancelled at any step and sent again                                    *)
(***************************************************************************)
NextRetry ==
    \E t \in Tasks :
        \/ /\ \A u \in Tasks : ~Serving(u)
           /\ \E e \in EntityIds, request \in TwoRequests :
                 CreateEntity(t, e, request)
        \/ CreateStep(t)
        \/ Cancel(t)
        \/ /\ \A u \in Tasks : ~Serving(u)
           /\ Retry(t)

SpecRetry == Init /\ [][NextRetry]_vars

(***************************************************************************)
(* Concurrent create_entity requests that set or clear a flag              *)
(***************************************************************************)
FlaggedRequests ==
    {EntityCreateRequest(NumDocs, f, FALSE, FALSE) :
        f \in {NoFlags, [NoFlags EXCEPT !.is_dangling = TRUE]}}

NextFlagged ==
    \E t \in Tasks :
        \/ \E e \in EntityIds, request \in FlaggedRequests :
              CreateEntity(t, e, request)
        \/ CreateStep(t)

SpecFlagged == Init /\ [][NextFlagged]_vars

\* a HashDedupeBag used on its own, with any cutoff, hashes and namespaces
InitBag ==
    /\ WebIdle
    /\ \E c \in 1..MaxCutoff : NewBag(c)
    /\ entity = NoEntity
    /\ outputs = << >>
    /\ rows = << >>
    /\ now = 0
    /\ history = << >>

NextBag ==
    \/ \E hash \in Hashes, namespace \in Namespaces :
          AlreadySeen(hash, namespace)
    \/ Clear

SpecBag == InitBag /\ [][NextBag]_vars

\* one entity serialised again and again, by the same converter or a new one
InitTurtle ==
    /\ WebIdle
    /\ NewBag(DefaultCutoff)
    /\ entity \in Entities
    /\ outputs = << >>
    /\ rows = << >>
    /\ now = 0
    /\ history = << >>

NextTurtle ==
    \/ EntityConverter
    \/ ConvertToString

SpecTurtle == InitTurtle /\ [][NextTurtle]_vars

\* revisions inserted as time passes, and the history read
InitHistory ==
    /\ WebIdle
    /\ AsideIdle

NextHistory ==
    \/ \E e \in EntityIds : InsertRevisionStamped(e)
    \/ Tick
    \/ \E e \in EntityIds : GetEntityHistory(e)

SpecHistory == InitHistory /\ [][NextHistory]_vars

\* one create_entity at a time on an entity stored with one protection flag
\* or none, as a mass edit by a caller who is not autoconfirmed or as
\* neither: the request that stored it is sent again, or another document
ResendRequests ==
    {EntityCreateRequest(1, f, b, b) :
        f \in {NoFlags,
               [NoFlags EXCEPT !.is_archived = TRUE],
               [NoFlags EXCEPT !.is_locked = TRUE],
               [NoFlags EXCEPT !.is_mass_edit_protected = TRUE],
               [NoFlags EXCEPT !.is_semi_protected = TRUE]},
        b \in BOOLEAN}

InitResend ==
    /\ \E first \in [EntityIds -> ResendRequests \cup {NoRequest}] :
          /\ first["Q1"] # NoRequest
          /\ first["Q2"] = NoRequest
          /\ StoredBefore(first)
    /\ tasks = [t \in Tasks |-> IdleTask]
    /\ started = 0
    /\ AsideIdle

NextResend ==
    \E t \in Tasks :
        \/ /\ \A u \in Tasks : ~Serving(u)
           /\ \E e \in EntityIds,
                 request \in ResendRequests
                               \cup {EntityCreateRequest(NumDocs, NoFlags,
                                                         TRUE, TRUE)} :
                 CreateEntity(t, e, request)
        \/ CreateStep(t)

SpecResend == InitResend /\ [][NextResend]_vars

\* the converter on an entity whose statements carry quantity values
QuantityEntities ==
    {[id |-> "Q1", statements |-> st] :
        st \in UNION {[1..n -> [value : QuantityValues,
                               qualifiers : {<< >>},
                               references : {<< >>}]] :
                         n \in 0..MaxStatements}}

InitQuantity ==
    /\ WebIdle
    /\ NewBag(DefaultCutoff)
    /\ entity \in QuantityEntities
    /\ outputs = << >>
    /\ rows = << >>
    /\ now = 0
    /\ history = << >>

NextQuantity ==
    \/ EntityConverter
    \/ ConvertToString

SpecQuantity == InitQuantity /\ [][NextQuantity]_vars

\* One request at a time, create_entity or delete_entity, on an entity
\* stored with one protection flag or none
RejectedRequests ==
    {EntityCreateRequest(NumDocs, NoFlags, me, nac) :
        me \in BOOLEAN, nac \in BOOLEAN}

NextRejected ==
    \E t \in Tasks :
        \/ /\ \A u \in Tasks : ~Serving(u)
           /\ \/ \E e \in EntityIds, request \in RejectedRequests :
                    CreateEntity(t, e, request)
              \/ \E e \in EntityIds, delete_type \in DeleteTypes :
                    DeleteEntity(t, e, delete_type)
        \/ CreateStep(t)
        \/ DeleteStep(t)

SpecRejected == InitResend /\ [][NextRejected]_vars

(***************************************************************************)
(* Properties                                                              *)
(***************************************************************************)
Done(t) == tasks[t].pc = "done"

Quiescent == \A t \in Tasks : ~Serving(t)

\* a finished create_entity that went as far as its head update
WroteFrom(t, entity_id, head_revision_id) ==
    /\ Done(t)
    /\ tasks[t].op = "create_entity"
    /\ tasks[t].entity_id = entity_id
    /\ tasks[t].head_revision_id = head_revision_id
    /\ tasks[t].detail \notin {"unchanged", "deleted", "archived", "locked",
                               "mass-edit", "semi-protected"}

Succeeded(t, revision_id) ==
    tasks[t].status = 200 /\ tasks[t].revision_id = revision_id

\* the writers of entity_id that read head h, when nothing else is running
\* or has run beside them
WritersFrom(entity_id, h) == {t \in Tasks : WroteFrom(t, entity_id, h)}

ConcurrentWriters(entity_id, h) ==
    LET S == WritersFrom(entity_id, h) IN
    /\ h >= 1
    /\ Cardinality(S) >= 2
    /\ \A t \in Tasks : t \in S \/ tasks[t].pc = "idle"
    /\ \A t, u \in S : t # u => tasks[t].request # tasks[u].request

\* C1: N >= 2 create_entity writes with pairwise different content on one
\* existing entity that all read the same head h: exactly one returns success
\* with revision h+1, the others return 409, and the head row ends at h+1.
C1_OneWriterWins ==
    \A e \in EntityIds : \A h \in 1..(MaxRequests + 1) :
        ConcurrentWriters(e, h) =>
            LET S == WritersFrom(e, h) IN
            /\ \E t \in S :
                  /\ Succeeded(t, h + 1)
                  /\ \A u \in S \ {t} : tasks[u].status = 409
            /\ get_head(e) = h + 1

\* a finished create_entity that made a new revision
Created(t) ==
    /\ Done(t)
    /\ tasks[t].op = "create_entity"
    /\ tasks[t].status = 200
    /\ tasks[t].detail # "unchanged"

\* C2: once create_entity has returned success with revision r for document
\* d, every read of revision r returns d with content_hash = hash(d).
C2_ReadsReturnWhatWasWritten ==
    \A t \in Tasks :
        Created(t) =>
            LET e == tasks[t].entity_id
                r == tasks[t].revision_id
            IN  /\ get_entity_revision_status(e, r) = 200
                /\ get_entity_revision(e, r) = tasks[t].request
                /\ get_raw_revision(e, r).entity = tasks[t].request
                /\ get_raw_revision(e, r).content_hash
                      = ContentHash(tasks[t].request)
                /\ (get_head(e) = r /\ get_entity_status(e) = 200)
                      => get_entity(e).data = tasks[t].request

\* C3: when no request is in progress, the blob at the head of every entity
\* exists and is published.
C3_HeadBlobPublished ==
    Quiescent =>
        \A e \in EntityIds :
            HasHead(e) =>
                /\ CanRead(e, get_head(e))
                /\ bucket[Key(e, get_head(e))].publication_state = "published"

\* C4: when no request is in progress, the revision ids of every entity with
\* a head row are exactly 1..head_revision_id.
C4_RevisionsContiguous ==
    Quiescent =>
        \A e \in EntityIds :
            HasHead(e) => RevisionIds(e) = 1..get_head(e)

\* C5: in every step the head_revision_id of an entity stays or grows by
\* exactly 1.
C5_HeadStepsByOne ==
    [][\A e \in EntityIds :
          HasHead(e) =>
              /\ HasHead(e)'
              /\ \/ get_head(e)' = get_head(e)
                 \/ get_head(e)' = get_head(e) + 1]_vars

HardDeleted(entity_id) ==
    \E t \in Tasks :
        /\ Done(t)
        /\ tasks[t].op = "delete_entity"
        /\ tasks[t].delete_type = "hard"
        /\ tasks[t].entity_id = entity_id
        /\ tasks[t].status = 200

\* C6: after a hard delete of an id has succeeded, every operation on the
\* id is rejected with 410.
C6_GoneAfterHardDelete ==
    \A e \in EntityIds :
        HardDeleted(e) =>
            /\ create_entity_guard_status(e) = 410
            /\ get_entity_status(e) = 410
            /\ get_entity_history_status(e) = 410
            /\ \A r \in RevisionIds(e) :
                  /\ get_entity_revision_status(e, r) = 410
                  /\ get_raw_revision_status(e, r) = 410
            /\ get_entity_data_turtle_status(e) = 410
            /\ delete_entity_status(e) = 410

\* C7: once the head row of an entity has is_deleted = true, it keeps it.
C7_DeletedStaysDeleted ==
    [][\A e \in EntityIds :
          (HasHead(e) /\ HeadRow(e).is_deleted) =>
              (HasHead(e)' /\ HeadRow(e)'.is_deleted)]_vars

\* C9: a create_entity for an id that is not registered, with nothing else
\* running, registers it, writes revision 1, inserts the head row with the
\* flags of the request and returns revision 1; get_entity then returns the
\* document at revision 1.
C9_FirstWriteCreatesHead ==
    \A t \in Tasks :
        (/\ started = 1
         /\ Done(t)
         /\ tasks[t].op = "create_entity"
         /\ tasks[t].head_revision_id = 0) =>
            LET e == tasks[t].entity_id IN
            /\ Succeeded(t, 1)
            /\ Registered(e)
            /\ 1 \in RevisionIds(e)
            /\ entity_head[e] = {NewHeadRow(1, tasks[t].request.flags, FALSE, FALSE)}
            /\ get_entity_status(e) = 200
            /\ get_entity(e) = [revision_id |-> 1, data |-> tasks[t].request]

\* the entity has a head whose blob carries the content hash of the request
HeadHasContentOf(entity_id, request) ==
    /\ HasHead(entity_id)
    /\ Key(entity_id, HeadRow(entity_id).head_revision_id) \in DOMAIN bucket
    /\ bucket[Key(entity_id, HeadRow(entity_id).head_revision_id)]
          .data.content_hash = ContentHash(request)

\* C8: a create_entity on an existing entity whose content hash equals the
\* content_hash of the head blob writes no blob, inserts no revision row,
\* leaves the head row as it is, and returns the head revision_id.
C8_SameContentCreatesNothing ==
    [][\A t \in Tasks :
          (/\ tasks[t].op = "create_entity"
           /\ tasks[t].pc \in {"create_resolve", "create_deleted",
                                "create_head", "create_idempotency"}
           /\ tasks'[t] # tasks[t]
           /\ HeadHasContentOf(tasks[t].entity_id, tasks[t].request)) =>
              /\ UNCHANGED <<index, bucket>>
              /\ tasks'[t].pc \in {"create_deleted", "create_head",
                                   "create_idempotency", "done"}
              /\ tasks'[t].pc = "done" =>
                    /\ tasks'[t].status = 200
                    /\ tasks'[t].revision_id
                          = HeadRow(tasks[t].entity_id).head_revision_id]_vars

\* a repeated POST has been answered with the head revision it made before
C8_Witness ==
    \E t \in Tasks :
        /\ started >= 2
        /\ Done(t)
        /\ tasks[t].op = "create_entity"
        /\ tasks[t].detail = "unchanged"
        /\ tasks[t].status = 200
        /\ tasks[t].revision_id = 2
        /\ get_head(tasks[t].entity_id) = 2
        /\ RevisionIds(tasks[t].entity_id) = {1, 2}
        /\ HeadHasContentOf(tasks[t].entity_id, tasks[t].request)

\* the rules of admission, in order
AdmitRules(flags, request) ==
    << [matches |-> flags.is_archived, outcome |-> "archived"],
       [matches |-> flags.is_locked, outcome |-> "locked"],
       [matches |-> flags.is_mass_edit_protected /\ request.is_mass_edit,
        outcome |-> "mass-edit"],
       [matches |-> flags.is_semi_protected
                       /\ request.is_not_autoconfirmed_user,
        outcome |-> "semi-protected"],
       [matches |-> TRUE, outcome |-> "admitted"] >>

\* first match wins
Admit(flags, request) ==
    LET rules == AdmitRules(flags, request)
        first == CHOOSE i \in 1..Len(rules) :
                    /\ rules[i].matches
                    /\ \A j \in 1..(i - 1) : ~rules[j].matches
    IN  rules[first].outcome

\* C10: for a create_entity with changed content on an existing entity the
\* decision is the first matching rule, on the flags of the head row:
\* archived, locked, mass-edit-protected and a mass edit, semi-protected and
\* a caller who is not autoconfirmed; otherwise the write is admitted.
C10_AdmissionFollowsRules ==
    [][\A t \in Tasks :
          (/\ tasks[t].pc = "create_protection"
           /\ tasks'[t].pc # "create_protection"
           /\ HasHead(tasks[t].entity_id)
           /\ ~HeadHasContentOf(tasks[t].entity_id, tasks[t].request)) =>
              LET outcome == Admit(HeadRow(tasks[t].entity_id).flags,
                                   tasks[t].request)
              IN  IF outcome = "admitted"
                  THEN tasks'[t].pc = "create_write"
                  ELSE /\ tasks'[t].pc = "done"
                       /\ tasks'[t].status = 403
                       /\ tasks'[t].detail = outcome]_vars

\* a mass edit by a caller who is not autoconfirmed has been refused as a
\* mass edit on an entity that is semi-protected as well
C10_Witness ==
    \E t \in Tasks :
        /\ Done(t)
        /\ tasks[t].op = "create_entity"
        /\ tasks[t].status = 403
        /\ tasks[t].detail = "mass-edit"
        /\ tasks[t].request.is_mass_edit
        /\ tasks[t].request.is_not_autoconfirmed_user
        /\ HeadRow(tasks[t].entity_id).flags.is_semi_protected
        /\ HeadRow(tasks[t].entity_id).flags.is_mass_edit_protected

Protected(entity_id) ==
    /\ HasHead(entity_id)
    /\ \/ HeadRow(entity_id).flags.is_locked
       \/ HeadRow(entity_id).flags.is_archived

\* C11: while the head of an entity is locked or archived, no step changes
\* its head row or adds a revision to it.
C11_LockedBlocksWrites ==
    [][\A e \in EntityIds :
          Protected(e) =>
              /\ entity_head'[e] = entity_head[e]
              /\ RevisionIds(e)' = RevisionIds(e)]_vars

\* C12: a create_entity that found its id unresolved goes on with the
\* request whether or not another request registered the id meanwhile, and
\* the id ends up registered.
C12_LoserContinues ==
    [][\A t \in Tasks :
          (tasks[t].pc = "create_register" /\ tasks'[t].pc # "create_register") =>
              /\ tasks'[t].pc = "create_head"
              /\ Registered(tasks[t].entity_id)']_vars

RegistryIsBijection ==
    \A e1, e2 \in EntityIds :
        (Registered(e1) /\ Registered(e2) /\ e1 # e2) =>
            entity_id_mapping[e1] # entity_id_mapping[e2]

\* C13: the registry is a bijection between registered external ids and
\* internal ids in every state, and a mapping once inserted is never removed
\* or changed.
C13_RegistryBijection ==
    [][/\ RegistryIsBijection
       /\ RegistryIsBijection'
       /\ \A e \in EntityIds :
             Registered(e) => entity_id_mapping'[e] = entity_id_mapping[e]]_vars

\* two requests found Q2 unresolved; one registered it beside Q1, the other
\* was refused by the key
C13_Witness ==
    /\ Registered("Q1")
    /\ Registered("Q2")
    /\ entity_id_mapping["Q1"] # entity_id_mapping["Q2"]
    /\ ~HasHead("Q2")
    /\ \E t, u \in Tasks :
          /\ t # u
          /\ tasks[t].entity_id = "Q2" /\ tasks[u].entity_id = "Q2"
          /\ tasks[t].op = "create_entity" /\ tasks[u].op = "create_entity"
          /\ tasks[t].pc = "create_head"
          /\ Done(u) /\ tasks[u].status = 500
          /\ RevisionIds("Q2") = {}

\* a finished create_redirect out of entity_id that returned success
Redirected(t, entity_id) ==
    /\ Done(t)
    /\ tasks[t].op = "create_redirect"
    /\ tasks[t].entity_id = entity_id
    /\ tasks[t].status = 200

\* C14: on every head row is_redirect is true exactly when redirects_to is
\* set, and once a create_redirect out of an entity has returned success the
\* head row of that entity has is_redirect = true and redirects_to = the
\* target of the request.
C14_RedirectFlagMatchesPointer ==
    /\ \A e \in EntityIds :
          HasHead(e) => (HeadRow(e).is_redirect <=> HeadRow(e).redirects_to # "")
    /\ \A t \in Tasks, e \in EntityIds :
          Redirected(t, e) =>
              /\ HasHead(e)
              /\ HeadRow(e).is_redirect
              /\ HeadRow(e).redirects_to = tasks[t].redirect_to

\* C15: the step with which a create_redirect returns success leaves the head
\* of the source at the revision the request wrote, which is one more than
\* the head the request read, and get_entity then answers 200 with the
\* redirect body.
C15_RedirectAdvancesHead ==
    [][\A t \in Tasks :
          (tasks[t].op = "create_redirect" /\ ~Done(t) /\ Done(t)'
                /\ tasks'[t].status = 200) =>
              /\ tasks'[t].revision_id = tasks[t].head_revision_id + 1
              /\ get_head(tasks[t].entity_id)' = tasks'[t].revision_id
              /\ get_entity_status(tasks[t].entity_id)' = 200
              /\ get_entity(tasks[t].entity_id)'.data =
                    RedirectRevisionData(tasks[t].redirect_to,
                                         tasks'[t].revision_id).entity]_vars

\* C16: a create_redirect between two different ids of which one is not
\* registered ends with 404, and no blob of the source is in the bucket.
C16_UnknownIdIsNotFound ==
    \A t \in Tasks :
        (/\ Done(t)
         /\ tasks[t].op = "create_redirect"
         /\ tasks[t].entity_id # tasks[t].redirect_to
         /\ \/ ~Registered(tasks[t].entity_id)
            \/ ~Registered(tasks[t].redirect_to)) =>
            /\ tasks[t].status = 404
            /\ \A k \in DOMAIN bucket : k[1] # tasks[t].entity_id

\* C17: a create_redirect that tests the source while another create_redirect
\* out of that source has already returned success is answered 409, and at
\* most one finished create_redirect out of a source has returned success.
C17_SecondRedirectConflicts ==
    [][/\ \A t \in Tasks :
            (/\ tasks[t].pc = "redirect_target"
             /\ tasks'[t].pc # "redirect_target"
             /\ \E u \in Tasks : Redirected(u, tasks[t].entity_id)) =>
                tasks'[t].status = 409
       /\ \A e \in EntityIds :
            Cardinality({t \in Tasks : Redirected(t, e)'}) <= 1]_vars

\* C18: a revert_redirect that tests an entity whose head row has no
\* redirects_to pointer is answered 404 "not a redirect" and changes neither
\* the index nor the bucket.
C18_RevertOfNonRedirectIsNotFound ==
    [][\A t \in Tasks :
          (/\ tasks[t].pc = "revert_target"
           /\ tasks'[t].pc # "revert_target"
           /\ HasHead(tasks[t].entity_id)
           /\ HeadRow(tasks[t].entity_id).redirects_to = "") =>
              /\ tasks'[t].status = 404
              /\ tasks'[t].detail = "not a redirect"
              /\ UNCHANGED <<index, bucket>>]_vars

\* the blob of entity_id at revision_id is the record of a soft delete
SoftDeleteBlob(entity_id, revision_id) ==
    /\ CanRead(entity_id, revision_id)
    /\ read_revision(entity_id, revision_id).edit_type = "soft-delete"

\* the head of entity_id is the revision a soft delete wrote
SoftDeleted(entity_id) ==
    /\ HasHead(entity_id)
    /\ SoftDeleteBlob(entity_id, get_head(entity_id))

C20_PublishFailureSwallowed ==
    [][\A t \in Tasks :
          (/\ tasks[t].op = "create_entity"
           /\ tasks[t].pc = "publish"
           /\ tasks'[t].pc # "publish") =>
              /\ tasks'[t].status = 200
              /\ tasks'[t].revision_id = tasks[t].head_revision_id + 1]_vars

\* a finished create_entity whose pending blob write failed
WriteFailed(t) ==
    /\ Done(t)
    /\ tasks[t].op = "create_entity"
    /\ tasks[t].detail = "io-error"

\* C21: when the first request of a run is a create_entity whose pending
\* blob write fails, the index is what it was at start: every registered id
\* has a head row, its revision list is {1} and there is no redirect edge;
\* an id that was not registered has no mapping, no row and no head.
C21_WriteFailureTouchesNoMetadata ==
    (started = 1 /\ \E t \in Tasks : WriteFailed(t)) =>
        /\ entity_redirects = {}
        /\ \A e \in EntityIds :
              IF Registered(e)
              THEN /\ HasHead(e)
                   /\ get_head(e) = 1
                   /\ RevisionIds(e) = {1}
              ELSE /\ ~HasHead(e)
                   /\ RevisionIds(e) = {}

\* C22: a create_entity that leaves its protection check on an entity whose
\* head row is locked or archived is turned away, whether or not the head
\* blob could be read; it never goes on to write.
C22_ProtectionNeverSkipped ==
    [][\A t \in Tasks :
          (/\ tasks[t].op = "create_entity"
           /\ tasks[t].pc = "create_protection"
           /\ tasks'[t].pc # "create_protection"
           /\ Protected(tasks[t].entity_id)
           /\ get_head(tasks[t].entity_id) = tasks[t].head_revision_id) =>
              /\ Done(t)'
              /\ tasks'[t].status # 200]_vars

\* a request that was cancelled
Cancelled(t) == Done(t) /\ tasks[t].detail = "cancelled"

\* C27: in every state, also in the middle of requests and after cancelled
\* ones, an entity with a head row has a blob and a revision row at its
\* head_revision_id.
C27_HeadNamesBlobAndRow ==
    \A e \in EntityIds :
        HasHead(e) =>
            /\ CanRead(e, get_head(e))
            /\ get_head(e) \in RevisionIds(e)

\* a cancelled request has left a blob and a revision row beyond the head
\* of one entity, and a later request has moved the head of the other entity
\* and has not yet published
C27_Witness ==
    \E u \in Tasks, e \in EntityIds :
        /\ tasks[u].pc = "publish"
        /\ tasks[u].entity_id # e
        /\ get_head(tasks[u].entity_id) = tasks[u].head_revision_id + 1
        /\ HasHead(e)
        /\ CanRead(e, get_head(e) + 1)
        /\ get_head(e) + 1 \in RevisionIds(e)

\* C29: when the first request of a run is a create_entity that is cancelled
\* after its pending blob write and before its head update, the revision
\* lists and the head rows are what they were at start: revision 1 and head 1
\* for a stored entity, nothing for the others.
C29_CancelLeavesOnlyBlob ==
    \A t \in Tasks :
        (/\ started = 1
         /\ Cancelled(t)
         /\ tasks[t].op = "create_entity"
         /\ CanRead(tasks[t].entity_id, NewRevisionId(tasks[t].head_revision_id))
         /\ get_head(tasks[t].entity_id) = tasks[t].head_revision_id) =>
            \A e \in EntityIds :
                IF HasHead(e)
                THEN get_head(e) = 1 /\ RevisionIds(e) = {1}
                ELSE RevisionIds(e) = {}

\* C30: insert_revision for a row that exists reports no error and leaves
\* the revision list as it is; and with requests served one at a time, a
\* create_entity sent again after it was cancelled past its blob write is
\* not turned away and returns 200 with the revision after the head it read.
C30_RetryAfterInsertRevision ==
    [][\A t \in Tasks :
          LET task == tasks[t]
              e == task.entity_id
              r == NewRevisionId(task.head_revision_id)
          IN
          /\ (/\ task.pc = "revision_select"
              /\ tasks'[t].pc # "revision_select"
              /\ ~Cancelled(t)'
              /\ RevisionExists(e, r)) =>
                  /\ ~Done(t)'
                  /\ entity_revisions' = entity_revisions
          /\ (/\ task.op = "create_entity"
              /\ Serving(t)
              /\ task.detail = "retry"
              /\ Done(t)'
              /\ ~Cancelled(t)') =>
                  /\ tasks'[t].status = 200
                  /\ tasks'[t].revision_id = r
                  /\ get_head(e)' = r]_vars

\* C28: when no request is running, the flags in the head row of an entity
\* are the flags recorded in the blob at its head revision.
C28_HeadFlagsMatchBlob ==
    Quiescent =>
        \A e \in EntityIds :
            (HasHead(e) /\ CanRead(e, get_head(e))) =>
                HeadRow(e).flags = read_revision(e, get_head(e)).flags


\* the calls before call i that used the same key namespace + hash[:cutoff]
SameKeyBefore(i) ==
    {j \in 1..(i - 1) :
        BagKey(calls[j].namespace, calls[j].hash, cutoff)
            = BagKey(calls[i].namespace, calls[i].hash, cutoff)}

Latest(S) == CHOOSE j \in S : \A k \in S : k <= j

\* C23: in any sequence of already_seen calls since construction or the
\* last clear(), a call returns true if and only if the most recent earlier
\* call with the same key namespace + hash[:cutoff] was made with the
\* identical full hash; so it never returns true for a (hash, namespace)
\* pair that was not passed before, and every call leaves bag[key] = hash.
C23_SeenIffLatestSameKeyHadSameHash ==
    /\ \A i \in DOMAIN calls :
          /\ calls[i].result
                <=> /\ SameKeyBefore(i) # {}
                    /\ calls[Latest(SameKeyBefore(i))].hash = calls[i].hash
          /\ calls[i].result
                => \E j \in 1..(i - 1) :
                      /\ calls[j].hash = calls[i].hash
                      /\ calls[j].namespace = calls[i].namespace
    /\ calls # << >>
          => LET last == calls[Len(calls)]
                 key == BagKey(last.namespace, last.hash, cutoff)
             IN  /\ key \in DOMAIN bag
                 /\ bag[key] = last.hash

\* a hash was repeated and found (true), and a hash met the key of a
\* different hash stored before it (false, and it took the other's place)
C23_Witness ==
    /\ \E i \in DOMAIN calls : calls[i].result
    /\ \E i \in DOMAIN calls :
          /\ ~calls[i].result
          /\ \E j \in SameKeyBefore(i) : calls[j].hash # calls[i].hash

\* the value ids an entity refers to: statement values, qualifiers and
\* reference snaks
ReferencedValueIds(ent) ==
    UNION {
        {generate_value_node_uri(v) :
            v \in {x \in {ent.statements[i].value}
                        \cup {ent.statements[i].qualifiers[q] :
                                q \in DOMAIN ent.statements[i].qualifiers}
                        \cup UNION {{ent.statements[i].references[r][s] :
                                        s \in DOMAIN
                                            ent.statements[i].references[r]} :
                                    r \in DOMAIN
                                            ent.statements[i].references} :
                    _needs_value_node(x)}} :
        i \in DOMAIN ent.statements}

\* the lines "wdv:<id> a wikibase:TimeValue" of a document
BlockLines(output, id) ==
    {k \in DOMAIN output :
        output[k] = Line("a wikibase:TimeValue", id)}

\* C24: one convert_to_turtle output contains each value-node block
\* "wdv:<hash> a wikibase:...Value" at most once, and as many blocks as the
\* entity's statements, qualifiers and reference snaks refer to distinct
\* value hashes, whatever the order and the hashes, also for hashes that
\* share their first five hex characters.  Stated for the first use of a
\* converter.
C24_EachValueNodeOnce ==
    [][(bag = EmptyBag /\ Len(outputs') = Len(outputs) + 1)
          => LET output == outputs'[Len(outputs')]
             IN  /\ \A id \in ValueIds :
                       Cardinality(BlockLines(output, id)) <= 1
                 /\ Cardinality({id \in ValueIds :
                                    BlockLines(output, id) # {}})
                       = Cardinality(ReferencedValueIds(entity))]_vars

\* C25: serialising the same entity with the same property registry twice
\* yields the same Turtle output, also when both runs use the same
\* EntityConverter object one after the other.
C25_SameEntitySameTurtle ==
    \A i, j \in DOMAIN outputs : outputs[i] = outputs[j]

\* C26: get_entity_history returns every revision-list row of the entity,
\* newest first: a revision inserted after another one precedes it in the
\* result, also when both were created within the same timestamp unit.
C26_HistoryNewestFirst ==
    [][\A e \in EntityIds :
          history' \in get_history(e) /\ rows' = rows
             => /\ {history'[k].revision_id : k \in DOMAIN history'}
                      = {rows[i].revision_id : i \in RowsOf(e)}
                /\ \A j, k \in DOMAIN history' :
                      j < k => history'[j].revision_id
                                  > history'[k].revision_id]_vars


\* the triples of a document that name a value node: statement value,
\* qualifier value, reference value
ValueNodeTriples(output) ==
    {k \in DOMAIN output : output[k].text \in {"psv:", "pqv:", "prv:"}}

\* how many structured values a sequence of values holds
RECURSIVE CountValueNodes(_)
CountValueNodes(values) ==
    IF values = << >>
    THEN 0
    ELSE (IF _needs_value_node(Head(values)) THEN 1 ELSE 0)
            + CountValueNodes(Tail(values))

\* the values of an entity in the order they are written
RECURSIVE ValuesInOrder(_)
ValuesInOrder(statements) ==
    IF statements = << >>
    THEN << >>
    ELSE LET stmt == Head(statements)
         IN  <<stmt.value>> \o stmt.qualifiers
                \o (IF stmt.references = << >>
                    THEN << >>
                    ELSE stmt.references[1])
                \o ValuesInOrder(Tail(statements))

\* C31: for any sequence of convert_to_turtle calls on one EntityConverter,
\* every single output holds, for each wdv:<hash> one of its statement,
\* qualifier or reference triples names, the value-node block of that hash;
\* and the naming triples are there once per occurrence of a structured
\* value, deduplicated block or not.
C31_EveryNamedNodeHasItsBlock ==
    \A i \in DOMAIN outputs :
        /\ \A k \in ValueNodeTriples(outputs[i]) :
              BlockLines(outputs[i], outputs[i][k].id) # {}
        /\ Cardinality(ValueNodeTriples(outputs[i]))
              = CountValueNodes(ValuesInOrder(entity.statements))


\* C32: an admitted create_entity sets the flags of the new head, in the
\* head row and in the blob, to exactly the flags of the request; nothing is
\* taken over from the previous head, so a request without a flag clears it.
C32_NewHeadHasRequestFlags ==
    [][\A t \in Tasks :
          LET task == tasks[t]
              e == task.entity_id
              r == NewRevisionId(task.head_revision_id)
          IN  (/\ task.op = "create_entity"
               /\ task.pc = "create_commit"
               /\ tasks'[t].pc = "publish") =>
                  /\ get_head(e)' = r
                  /\ HeadRow(e)'.flags = task.request.flags
                  /\ CanRead(e, r)'
                  /\ read_revision(e, r)'.flags = task.request.flags]_vars


\* the blob at the head a request has read carries the content hash of the
\* request
ResendsHead(task) ==
    /\ task.head_revision_id # NoneValue
    /\ Key(task.entity_id, task.head_revision_id) \in DOMAIN bucket
    /\ bucket[Key(task.entity_id, task.head_revision_id)].data.content_hash
          = ContentHash(task.request)

\* C33: in create_entity the idempotency check runs before the protection
\* rules: a request whose content hash is that of the head blob returns 200
\* with the existing revision, also when the head is archived or locked or
\* the request would be denied as a mass edit or for semi-protection; 403
\* is returned only by the protection check, to a request that has passed the
\* idempotency check and would create a new revision.
C33_IdempotencyBeforeProtection ==
    [][\A t \in Tasks :
          LET task == tasks[t] IN
          /\ (/\ task.pc = "create_idempotency"
              /\ tasks'[t].pc # "create_idempotency"
              /\ ResendsHead(task)) =>
                  /\ Done(t)'
                  /\ tasks'[t].status = 200
                  /\ tasks'[t].revision_id = task.head_revision_id
                  /\ UNCHANGED <<index, bucket>>
          /\ (/\ task.op = "create_entity"
              /\ Serving(t)
              /\ tasks'[t].status = 403) =>
                  /\ task.pc = "create_protection"
                  /\ ~ResendsHead(task)]_vars

\* the request that stored a locked or archived entity was sent again and
\* got 200 with the head revision
C33_Witness ==
    \E t \in Tasks :
        /\ Done(t)
        /\ tasks[t].op = "create_entity"
        /\ tasks[t].status = 200
        /\ tasks[t].detail = "unchanged"
        /\ tasks[t].revision_id = get_head(tasks[t].entity_id)
        /\ Protected(tasks[t].entity_id)
        /\ CheckProtection(read_revision(tasks[t].entity_id,
                                         tasks[t].revision_id),
                           tasks[t].request) # "admitted"


\* a finished request that wrote: it succeeded and was given a revision of
\* its own (a create_entity answered from the idempotency check was not)
Wrote(t) ==
    /\ Done(t)
    /\ tasks[t].status = 200
    /\ tasks[t].detail # "unchanged"
    /\ tasks[t].op \in {"create_entity", "delete_entity", "create_redirect",
                        "revert_redirect"}

\* C34: no two successful mutating operations on the same entity are given
\* the same revision id, in any interleaving of create_entity, soft delete,
\* hard delete, create_redirect and revert_redirect.
C34_RevisionIdsPairwiseDifferent ==
    \A t, u \in Tasks :
        (/\ t # u
         /\ Wrote(t)
         /\ Wrote(u)
         /\ tasks[t].entity_id = tasks[u].entity_id) =>
            tasks[t].revision_id # tasks[u].revision_id


\* C35: when no request is running, after any create_redirect and
\* revert_redirect operations, the redirect-edge table mirrors the head
\* rows: there is an edge (a, b) exactly when the head row of a has
\* redirects_to = b, so an entity has at most one outgoing edge.
C35_EdgesMirrorHeadRows ==
    Quiescent =>
        /\ \A a, b \in EntityIds :
              <<a, b>> \in entity_redirects
                 <=> (HasHead(a) /\ HeadRow(a).redirects_to = b)
        /\ \A a \in EntityIds :
              Cardinality({b \in EntityIds : <<a, b>> \in entity_redirects})
                 <= 1


\* the revision-list rows of one revision of an entity
RowsAt(entity_id, revision_id) ==
    {row \in entity_revisions :
        row.entity_id = entity_id /\ row.revision_id = revision_id}

\* C36: when the head update of a create_entity or delete_entity commits
\* revision r, the revision-list row of r carries the is_mass_edit and the
\* edit_type of that operation, the same values as the blob at r, also when
\* another writer of r inserted its row first.
C36_RowCarriesCommittingOperation ==
    [][\A t \in Tasks :
          LET task == tasks[t]
              e == task.entity_id
              r == NewRevisionId(task.head_revision_id)
              is_mass_edit == IF task.op = "create_entity"
                              THEN task.request.is_mass_edit ELSE FALSE
          IN  (/\ task.op \in {"create_entity", "delete_entity"}
               /\ task.pc \in {"create_commit", "delete_commit"}
               /\ tasks'[t].pc = "publish") =>
                  /\ RowsAt(e, r)' # {}
                  /\ \A row \in RowsAt(e, r)' :
                        /\ row.is_mass_edit = is_mass_edit
                        /\ row.edit_type = EditTypeOf(task)
                        /\ CanRead(e, r)' =>
                              /\ read_revision(e, r)'.is_mass_edit = row.is_mass_edit
                              /\ read_revision(e, r)'.edit_type = row.edit_type]_vars


\* the revision ids a read of an entity may be asked for: those of a blob or
\* of a revision-list row
KnownRevisionIds(entity_id) ==
    RevisionIds(entity_id)
        \cup {key[2] : key \in {k \in DOMAIN bucket : k[1] = entity_id}}

\* C37: reads expose only committed revisions: at any moment
\* get_entity_revision and get_raw_revision answer 200 only for a revision
\* id up to the head of the entity, and the history of the entity lists no
\* revision id beyond the head; so the blob of a write in flight, aborted or
\* beaten at the head update is never returned.
C37_ReadsExposeOnlyCommitted ==
    \A e \in EntityIds :
        /\ \A r \in KnownRevisionIds(e) :
              /\ get_entity_revision_status(e, r) = 200 => r <= get_head(e)
              /\ get_raw_revision_status(e, r) = 200 => r <= get_head(e)
        /\ get_entity_history_status(e) = 200 =>
              \A r \in RevisionIds(e) : r <= get_head(e)


\* the block write_quantity_value_node writes for a value when the bag has
\* not seen its node
QuantityBlock(value) ==
    write_quantity_value_node([output |-> << >>, bag |-> EmptyBag],
        DefaultCutoff, generate_value_node_uri(value), value).output

\* the document holds the lines of the block, one after the other
HoldsBlock(document, block) ==
    \E p \in 0..(Len(document) - Len(block)) :
        SubSeq(document, p + 1, p + Len(block)) = block

\* the document describes the node: it holds the head line of a block of it
DescribesNode(document, value_id) ==
    \E p \in DOMAIN document :
        document[p] = Line("a wikibase:QuantityValue", value_id)

\* C38: two quantity values with the same serialisation, and so the same
\* wdv digest, have the same value-node block: whenever a document describes
\* the node a statement names, it holds the block of the value of that
\* statement, whichever of the values sharing the node was written.
C38_SameHashSameBlock ==
    \A k \in DOMAIN outputs :
        \A i \in DOMAIN entity.statements :
            LET value == entity.statements[i].value IN
            DescribesNode(outputs[k], generate_value_node_uri(value))
                => HoldsBlock(outputs[k], QuantityBlock(value))


\* the steps of create_entity up to the protection check, the registration
\* of a new id apart
RejectionChecks ==
    {"create_resolve", "create_deleted", "create_head", "create_idempotency",
     "create_protection"}

\* C39: a create_entity on an existing entity that is rejected with 403 or
\* 410 leaves the blob store, the revision list, the ID mapping, the
\* redirect edges and every head row as they were: the rejection comes from
\* the deleted guard or the protection check, and on an entity that exists no
\* step of the request up to there writes anything or follows a step that
\* wrote.
C39_RejectedCreateWritesNothing ==
    [][\A t \in Tasks :
          LET task == tasks[t] IN
          task.op = "create_entity" /\ tasks'[t] # tasks[t] =>
              /\ (tasks'[t].pc = "done" /\ tasks'[t].status \in {403, 410}) =>
                    /\ task.pc \in {"create_deleted", "create_protection"}
                    /\ Registered(task.entity_id)
                    /\ UNCHANGED <<index, bucket>>
              /\ (task.pc \in RejectionChecks /\ Registered(task.entity_id)) =>
                    UNCHANGED <<index, bucket>>
              /\ (/\ Registered(task.entity_id)
                  /\ tasks'[t].op = "create_entity"
                  /\ tasks'[t].pc \in RejectionChecks \ {"create_resolve"}) =>
                    task.pc \in RejectionChecks]_vars

\* a create_entity has been rejected with 403 on an entity whose head is
\* protected, and the stores hold what was stored at start
C39_Witness ==
    \E t \in Tasks :
        /\ Done(t)
        /\ tasks[t].op = "create_entity"
        /\ tasks[t].status = 403
        /\ get_head(tasks[t].entity_id) = 1
        /\ DOMAIN bucket = {Key(tasks[t].entity_id, 1)}
        /\ RevisionIds(tasks[t].entity_id) = {1}

\* a create_entity has been rejected with 410 on an entity that a hard
\* delete has marked deleted at revision 2
C39_WitnessGone ==
    \E t \in Tasks :
        /\ Done(t)
        /\ tasks[t].op = "create_entity"
        /\ tasks[t].status = 410
        /\ is_entity_deleted(tasks[t].entity_id)
        /\ get_head(tasks[t].entity_id) = 2
        /\ DOMAIN bucket = {Key(tasks[t].entity_id, 1), Key(tasks[t].entity_id, 2)}
        /\ RevisionIds(tasks[t].entity_id) = {1, 2}

====
